---- MODULE Spec2Model ----
(***************************************************************************)
(* A model of the core of the query engine: the nested-loop join operator  *)
(* (operators/join_nested_loop.cpp), the column-between table scan, the    *)
(* between composition rule of the optimizer and the chunked table         *)
(* (storage/table.cpp).  Every subsystem has its own specification over    *)
(* the variables below; the variables of the other subsystems stay idle.   *)
(***************************************************************************)
EXTENDS Integers, Sequences, FiniteSets, TLC

VARIABLES
  pc,                                 \* position of the operation in progress
  \* ---- JoinNestedLoop ----
  input_table_left,                   \* the two input tables of the operator
  input_table_right,
  mode,                               \* _mode
  predicate_condition,                \* _predicate_condition
  left_table,                         \* the locals of _on_execute
  right_table,
  maybe_flipped_predicate_condition,
  pos_list_left,
  pos_list_right,
  right_matches,
  chunk_id_left,
  segments,                           \* the segments of the output chunk
  column_data_types,                  \* the data types of the two join columns
  right_join_output,                  \* the output chunk of an earlier Right join, if any
  \* ---- ColumnBetweenTableScanImpl ----
  scan_segment,                       \* the segment to scan
  scan_chunk_id,                      \* its chunk id
  position_filter,                    \* the optional position filter
  left_value,                         \* _left_value
  right_value,                        \* _right_value
  between_condition,                  \* _predicate_condition of the scan
  dictionary_end_id,                  \* value id of lower/upper_bound past the last entry
  matches,                            \* the position list the scan appends to
  \* ---- BetweenCompositionRule ----
  lqp,                                \* the nodes of the logical query plan, by node id
  input_lqp,                          \* the plan the rule was given
  pending,                            \* the calls of apply_to still to be made, first one first
  passes,                             \* number of finished applications of the rule
  map_iteration,                      \* how this build's unordered map orders its keys
  predicates_after_first_pass,        \* the predicates of the plan after the first application
  \* ---- Table ----
  table_max_chunk_size,               \* _max_chunk_size
  table_chunks,                       \* _chunks: per chunk its size, who made it, whether it takes rows
  last_call,                          \* the last call on the table and how it ended
  appenders,                          \* per thread inside Table::append: where it is, whether it locks
  append_mutex,                       \* _append_mutex: the thread that holds it, or NoThread
  chunks_before,                      \* _chunks when the concurrent calls began
  table_type,                         \* _type
  is_debug,                           \* IS_DEBUG of the build
  \* ---- Table::apply_and_check_bloom_filter ----
  bloom_max_chunk_size,               \* _max_chunk_size, a 32-bit word
  bloom_chunk_count,                  \* _chunks.size(), a 32-bit word
  bloom_chunk_id,                     \* chunk_id, a 32-bit word
  bloom_chunk_offset,                 \* chunk_offset of the row hashed last, a 32-bit word
  prev_rows,                          \* prev_rows, a 64-bit word
  row_number,                         \* row_number of the row hashed last, a 64-bit word
  bloom_chunks_visited                \* number of chunks the loop has gone through

joinVars == <<input_table_left, input_table_right, mode, predicate_condition,
              left_table, right_table, maybe_flipped_predicate_condition,
              pos_list_left, pos_list_right, right_matches, chunk_id_left,
              segments>>

\* what the operator is given besides its tables; no step changes it
joinInputVars == <<column_data_types>>

\* what is kept of an earlier execution
joinHistoryVars == <<right_join_output>>

scanVars == <<scan_segment, scan_chunk_id, position_filter, left_value, right_value,
              between_condition, dictionary_end_id, matches>>

ruleVars == <<lqp, input_lqp, pending, passes, map_iteration, predicates_after_first_pass>>

tableThreadVars == <<appenders, append_mutex, chunks_before>>
tableTypeVars == <<table_type, is_debug>>
tableVars == <<table_max_chunk_size, table_chunks, last_call, tableThreadVars, tableTypeVars>>

bloomVars == <<bloom_max_chunk_size, bloom_chunk_count, bloom_chunk_id, bloom_chunk_offset,
               prev_rows, row_number, bloom_chunks_visited>>

vars == <<pc, joinVars, joinInputVars, joinHistoryVars, scanVars, ruleVars, tableVars,
          bloomVars>>

(***************************************************************************)
(* Bounds of the model.                                                    *)
(***************************************************************************)
MaxJoinValue == 2       \* join column values are 1..MaxJoinValue or NULL
MaxJoinChunks == 2      \* chunks per join input
MaxJoinRows == 2        \* rows per join input, over all of its chunks
MaxScanValue == 2       \* column values of a scanned segment are 1..MaxScanValue or NULL
MaxScanRows == 2        \* rows of a scanned segment, and entries of a position filter
MaxScanChunkId == 1     \* chunk ids of a scanned segment are 0..MaxScanChunkId
MaxRuleValue == 2       \* the values of predicates are 1..MaxRuleValue
MaxRuleAtoms == 2       \* comparisons and other atoms in a predicate run of any kind
MaxBoundaryAtoms == 3   \* comparisons in a predicate run of column boundaries
MaxRulePasses == 2      \* applications of the rule to one plan
MaxTableChunkSize == 3  \* max_chunk_size of a table is 1..MaxTableChunkSize
MaxTableChunks == 4     \* chunks of a table
MaxAppendedRows == 4    \* rows of a chunk handed to append_chunk
MaxRowsBefore == 3      \* rows of a table when concurrent appends begin
MaxTypedChunks == 2     \* chunks of a table whose column kinds are followed
MaxTypedRows == 1       \* rows of a chunk handed to append_chunk there
MaxTableColumns == 2    \* columns of such a chunk
MaxRuleStack == 6       \* depth of the calls of apply_to before the stack overflows
MaxBloomChunks == 2     \* chunks one call of apply_and_check_bloom_filter goes through

(***************************************************************************)
(* Generic helpers.                                                        *)
(***************************************************************************)
SeqsUpTo(S, n) == UNION {[1..k -> S] : k \in 0..n}

RECURSIVE SumLen(_)
SumLen(ss) == IF ss = <<>> THEN 0 ELSE Len(Head(ss)) + SumLen(Tail(ss))

(***************************************************************************)
(* Unsigned 32-bit words.  A word x is represented by the integer x when   *)
(* x < 2^31 and by x - 2^32 otherwise (its two's complement reading), so   *)
(* that the largest word, 2^32 - 1, is -1.  Sums and differences of words  *)
(* modulo 2^32 are then the integer sums and differences, as long as they  *)
(* stay within 31 bits, and the unsigned order is UnsignedLess.            *)
(***************************************************************************)
UInt32Max == -1

UnsignedLess(a, b) == IF (a < 0) = (b < 0) THEN a < b ELSE b < 0

UnsignedLessEq(a, b) == a = b \/ UnsignedLess(a, b)

(***************************************************************************)
(* Words too wide for the integers of the checker are sequences of limbs   *)
(* of eight bits, the lowest limb first: four limbs for a 32-bit word,     *)
(* eight for a 64-bit word.                                                *)
(***************************************************************************)
RECURSIVE ToLimbs(_, _)
ToLimbs(n, limbs) ==
  IF limbs = 0 THEN <<>> ELSE <<n % 256>> \o ToLimbs(n \div 256, limbs - 1)

ZeroExtend(word, limbs) == word \o [i \in 1 .. (limbs - Len(word)) |-> 0]

\* the unsigned order of two words of the same width
RECURSIVE LessFrom(_, _, _)
LessFrom(a, b, i) ==
  IF i = 0 THEN FALSE
  ELSE IF a[i] # b[i] THEN a[i] < b[i]
  ELSE LessFrom(a, b, i - 1)

LessLimbs(a, b) == LessFrom(a, b, Len(a))

\* the sum of two words of the given width, modulo 2^(8 * limbs)
RECURSIVE PlusFrom(_, _, _, _, _)
PlusFrom(a, b, i, carry, limbs) ==
  IF i > limbs THEN <<>>
  ELSE <<(a[i] + b[i] + carry) % 256>>
       \o PlusFrom(a, b, i + 1, (a[i] + b[i] + carry) \div 256, limbs)

PlusLimbs(a, b, limbs) == PlusFrom(a, b, 1, 0, limbs)

\* the product of two words, modulo 2^(8 * limbs)
RECURSIVE ColumnSum(_, _, _, _)
ColumnSum(a, b, k, i) ==
  IF i > k THEN 0
  ELSE (IF i < Len(a) /\ k - i < Len(b) THEN a[i + 1] * b[k - i + 1] ELSE 0)
       + ColumnSum(a, b, k, i + 1)

RECURSIVE TimesFrom(_, _, _, _, _)
TimesFrom(a, b, k, carry, limbs) ==
  IF k >= limbs THEN <<>>
  ELSE <<(ColumnSum(a, b, k, 0) + carry) % 256>>
       \o TimesFrom(a, b, k + 1, (ColumnSum(a, b, k, 0) + carry) \div 256, limbs)

TimesLimbs(a, b, limbs) == TimesFrom(a, b, 0, 0, limbs)

(***************************************************************************)
(* Handles (types.hpp, as the spec describes them).                        *)
(***************************************************************************)
INVALID_CHUNK_ID == UInt32Max
INVALID_CHUNK_OFFSET == UInt32Max
INVALID_VALUE_ID == UInt32Max

RowID(chunk_id, chunk_offset) == [chunk_id |-> chunk_id, chunk_offset |-> chunk_offset]

NULL_ROW_ID == RowID(INVALID_CHUNK_ID, INVALID_CHUNK_OFFSET)

(***************************************************************************)
(* A segment of the join column is a sequence of cells; a cell is NULL or  *)
(* holds a value.  A table is a name and a sequence of chunks, a chunk     *)
(* being represented by its segment of the join column.  The chunks of a  *)
(* References table are reference segments, kept beside the cells they    *)
(* refer to.                                                               *)
(***************************************************************************)
NullCell == [is_null |-> TRUE, value |-> 0]
ValueCell(v) == [is_null |-> FALSE, value |-> v]

JoinCells == {NullCell} \cup {ValueCell(v) : v \in 1..MaxJoinValue}

JoinChunkLists ==
  {cs \in SeqsUpTo(SeqsUpTo(JoinCells, MaxJoinRows), MaxJoinChunks) : SumLen(cs) <= MaxJoinRows}

JoinTable(name, cs) ==
  [name |-> name, chunks |-> cs, type |-> "Data", reference_segments |-> <<>>]

NoTable == JoinTable("none", <<>>)

JoinModes == {"Inner", "Left", "Right", "Outer"}

PredicateConditions ==
  {"Equals", "NotEquals", "LessThan", "LessThanEquals", "GreaterThan", "GreaterThanEquals"}

(***************************************************************************)
(* Comparators.                                                            *)
(***************************************************************************)
with_comparator(condition, a, b) ==
  CASE condition = "Equals" -> a = b
    [] condition = "NotEquals" -> a # b
    [] condition = "LessThan" -> a < b
    [] condition = "LessThanEquals" -> a <= b
    [] condition = "GreaterThan" -> a > b
    [] condition = "GreaterThanEquals" -> a >= b

flip_predicate_condition(condition) ==
  CASE condition = "Equals" -> "Equals"
    [] condition = "NotEquals" -> "NotEquals"
    [] condition = "LessThan" -> "GreaterThan"
    [] condition = "LessThanEquals" -> "GreaterThanEquals"
    [] condition = "GreaterThan" -> "LessThan"
    [] condition = "GreaterThanEquals" -> "LessThanEquals"

(***************************************************************************)
(* process_match: the sink of both join paths.  params carries the two     *)
(* position lists and the match vectors of the current pair of chunks.     *)
(***************************************************************************)
JoinParams(pl, pr, lm, rm, tl, tr, cond) ==
  [pos_list_left |-> pl, pos_list_right |-> pr, left_matches |-> lm, right_matches |-> rm,
   track_left_matches |-> tl, track_right_matches |-> tr, predicate_condition |-> cond]

process_match(left_row_id, right_row_id, params) ==
  [params EXCEPT
     !.pos_list_left = Append(@, left_row_id),
     !.pos_list_right = Append(@, right_row_id),
     !.left_matches = IF params.track_left_matches
                        THEN [@ EXCEPT ![left_row_id.chunk_offset + 1] = TRUE]
                        ELSE @,
     !.right_matches = IF params.track_right_matches
                         THEN [@ EXCEPT ![right_row_id.chunk_offset + 1] = TRUE]
                         ELSE @]

(***************************************************************************)
(* join_two_typed_segments: the nested loops over one left and one right   *)
(* segment.  li and ri are the 1-based positions of the two iterators.     *)
(***************************************************************************)
RECURSIVE JoinLoop(_, _, _, _, _, _, _)
JoinLoop(left_segment, right_segment, chunk_id_l, chunk_id_r, li, ri, params) ==
  IF li > Len(left_segment) THEN params
  ELSE IF left_segment[li].is_null
    THEN JoinLoop(left_segment, right_segment, chunk_id_l, chunk_id_r, li + 1, 1, params)
  ELSE IF ri > Len(right_segment)
    THEN JoinLoop(left_segment, right_segment, chunk_id_l, chunk_id_r, li + 1, 1, params)
  ELSE IF right_segment[ri].is_null
    THEN JoinLoop(left_segment, right_segment, chunk_id_l, chunk_id_r, li, ri + 1, params)
  ELSE JoinLoop(left_segment, right_segment, chunk_id_l, chunk_id_r, li, ri + 1,
                IF with_comparator(params.predicate_condition,
                                   left_segment[li].value, right_segment[ri].value)
                  THEN process_match(RowID(chunk_id_l, li - 1), RowID(chunk_id_r, ri - 1), params)
                  ELSE params)

RECURSIVE JoinLoopRightMajor(_, _, _, _, _, _, _)
JoinLoopRightMajor(left_segment, right_segment, chunk_id_l, chunk_id_r, li, ri, params) ==
  IF ri > Len(right_segment) THEN params
  ELSE IF right_segment[ri].is_null
    THEN JoinLoopRightMajor(left_segment, right_segment, chunk_id_l, chunk_id_r, 1, ri + 1, params)
  ELSE IF li > Len(left_segment)
    THEN JoinLoopRightMajor(left_segment, right_segment, chunk_id_l, chunk_id_r, 1, ri + 1, params)
  ELSE IF left_segment[li].is_null
    THEN JoinLoopRightMajor(left_segment, right_segment, chunk_id_l, chunk_id_r, li + 1, ri, params)
  ELSE JoinLoopRightMajor(left_segment, right_segment, chunk_id_l, chunk_id_r, li + 1, ri,
                IF with_comparator(params.predicate_condition,
                                   left_segment[li].value, right_segment[ri].value)
                  THEN process_match(RowID(chunk_id_l, li - 1), RowID(chunk_id_r, ri - 1), params)
                  ELSE params)

join_two_typed_segments_right_major(left_segment, right_segment, chunk_id_l, chunk_id_r, params) ==
  JoinLoopRightMajor(left_segment, right_segment, chunk_id_l, chunk_id_r, 1, 1, params)

join_two_typed_segments(left_segment, right_segment, chunk_id_l, chunk_id_r, params) ==
  JoinLoop(left_segment, right_segment, chunk_id_l, chunk_id_r, 1, 1, params)

\* Both join columns have the same data type and encoding here, so the fast
\* path is taken; the slow path runs the same loops with an erased comparator.
join_two_untyped_segments(left_segment, right_segment, chunk_id_l, chunk_id_r, params) ==
  join_two_typed_segments(left_segment, right_segment, chunk_id_l, chunk_id_r, params)

(***************************************************************************)
(* The body of the loop over the left chunks of _on_execute.               *)
(***************************************************************************)
is_outer_join == mode \in {"Left", "Right", "Outer"}

Resize(bits, n) ==
  [i \in 1..n |-> IF i <= Len(bits) THEN bits[i] ELSE FALSE]

\* The loop over the right chunks for one left chunk: st carries the two
\* position lists, left_matches and the vector of all right_matches.
RECURSIVE ScanRightChunks(_, _, _, _)
ScanRightChunks(segment_left, chunk_id_l, chunk_id_right, st) ==
  IF chunk_id_right >= Len(right_table.chunks) THEN st
  ELSE
    LET segment_right == right_table.chunks[chunk_id_right + 1]
        resized == Resize(st.right_matches[chunk_id_right + 1], Len(segment_right))
        params == JoinParams(st.pos_list_left, st.pos_list_right, st.left_matches, resized,
                             is_outer_join, mode = "Outer", maybe_flipped_predicate_condition)
        joined == join_two_untyped_segments(segment_left, segment_right,
                                            chunk_id_l, chunk_id_right, params)
    IN ScanRightChunks(segment_left, chunk_id_l, chunk_id_right + 1,
         [pos_list_left |-> joined.pos_list_left,
          pos_list_right |-> joined.pos_list_right,
          left_matches |-> joined.left_matches,
          right_matches |-> [st.right_matches EXCEPT ![chunk_id_right + 1] = joined.right_matches]])

\* The unmatched rows of the left chunk, in offset order.
RECURSIVE UnmatchedLeftRowsNegationLost(_, _, _)
UnmatchedLeftRowsNegationLost(left_matches, chunk_id_l, chunk_offset) ==
  IF chunk_offset >= Len(left_matches) THEN <<>>
  ELSE (IF left_matches[chunk_offset + 1] THEN <<RowID(chunk_id_l, chunk_offset)>> ELSE <<>>)
       \o UnmatchedLeftRowsNegationLost(left_matches, chunk_id_l, chunk_offset + 1)

RECURSIVE UnmatchedLeftRows(_, _, _)
UnmatchedLeftRows(left_matches, chunk_id_l, chunk_offset) ==
  IF chunk_offset >= Len(left_matches) THEN <<>>
  ELSE (IF ~left_matches[chunk_offset + 1] THEN <<RowID(chunk_id_l, chunk_offset)>> ELSE <<>>)
       \o UnmatchedLeftRows(left_matches, chunk_id_l, chunk_offset + 1)

NullRowIDs(n) == [i \in 1..n |-> NULL_ROW_ID]

add_unmatched_left_in_front(st, chunk_id_l) ==
  IF is_outer_join
    THEN LET rows == UnmatchedLeftRows(st.left_matches, chunk_id_l, 0)
         IN [st EXCEPT !.pos_list_left = rows \o @,
                       !.pos_list_right = NullRowIDs(Len(rows)) \o @]
    ELSE st

\* The unmatched rows of the left chunk are appended, padded with NULL_ROW_ID.
add_unmatched_left(st, chunk_id_l) ==
  IF is_outer_join
    THEN LET rows == UnmatchedLeftRows(st.left_matches, chunk_id_l, 0)
         IN [st EXCEPT !.pos_list_left = @ \o rows,
                       !.pos_list_right = @ \o NullRowIDs(Len(rows))]
    ELSE st

(***************************************************************************)
(* The final pass of _on_execute over the right chunks in Outer mode.      *)
(* right_matches[cr] is read at every offset of right chunk cr; where the  *)
(* vector is shorter than the chunk the read is out of bounds and yields   *)
(* whatever the bit of garbage at that place is.                           *)
(***************************************************************************)
ReadRightMatch(garbage, chunk_id_right, chunk_offset) ==
  IF chunk_offset < Len(right_matches[chunk_id_right + 1])
    THEN right_matches[chunk_id_right + 1][chunk_offset + 1]
    ELSE garbage[chunk_id_right + 1][chunk_offset + 1]

RECURSIVE UnmatchedRightRows(_, _, _)
UnmatchedRightRows(garbage, chunk_id_right, chunk_offset) ==
  IF chunk_id_right >= Len(right_table.chunks) THEN <<>>
  ELSE IF chunk_offset >= Len(right_table.chunks[chunk_id_right + 1])
    THEN UnmatchedRightRows(garbage, chunk_id_right + 1, 0)
  ELSE (IF ~ReadRightMatch(garbage, chunk_id_right, chunk_offset)
          THEN <<RowID(chunk_id_right, chunk_offset)>> ELSE <<>>)
       \o UnmatchedRightRows(garbage, chunk_id_right, chunk_offset + 1)

RightMatchesOutOfBounds ==
  \E c \in 1..Len(right_table.chunks) : Len(right_matches[c]) < Len(right_table.chunks[c])

GarbageBits ==
  IF RightMatchesOutOfBounds
    THEN {g \in [1..Len(right_table.chunks) -> SeqsUpTo(BOOLEAN, SumLen(right_table.chunks))] :
            \A c \in 1..Len(right_table.chunks) : Len(g[c]) = Len(right_table.chunks[c])}
    ELSE {right_matches}

(***************************************************************************)
(* _write_output_chunks: one reference segment per column of the input     *)
(* table over the position list (the tables of this model are Data tables  *)
(* with the join column as their only column).                             *)
(***************************************************************************)
ReferenceSegment(referenced_table, referenced_column_id, pos_list) ==
  [referenced_table |-> referenced_table, referenced_column_id |-> referenced_column_id,
   pos_list |-> pos_list]

\* the RowID a row of a References table refers to
dereference(input_table, row) ==
  IF row.chunk_offset = INVALID_CHUNK_OFFSET
    THEN NULL_ROW_ID
    ELSE input_table.reference_segments[row.chunk_id + 1].pos_list[row.chunk_offset + 1]

\* the output segment that refers to the rows of the input table itself
write_output_chunks_without_dereferencing(segs, input_table, pos_list) ==
  IF input_table.type = "References" /\ Len(input_table.chunks) > 0
    THEN Append(segs, ReferenceSegment(input_table.reference_segments[1].referenced_table,
                                       input_table.reference_segments[1].referenced_column_id,
                                       pos_list))
  ELSE IF input_table.type = "References"
    THEN Append(segs, ReferenceSegment("dummy", 0, pos_list))
    ELSE Append(segs, ReferenceSegment(input_table.name, 0, pos_list))

write_output_chunks(segs, input_table, pos_list) ==
  IF input_table.type = "References"
    THEN IF Len(input_table.chunks) > 0
           THEN LET new_pos_list ==
                      [i \in 1..Len(pos_list) |-> dereference(input_table, pos_list[i])]
                    reference_segment == input_table.reference_segments[1]
                IN Append(segs, ReferenceSegment(reference_segment.referenced_table,
                                                 reference_segment.referenced_column_id,
                                                 new_pos_list))
           ELSE Append(segs, ReferenceSegment("dummy", 0, pos_list))
    ELSE Append(segs, ReferenceSegment(input_table.name, 0, pos_list))

(***************************************************************************)
(* The idle state of each subsystem: what its variables hold in the        *)
(* specifications of the other subsystems.                                 *)
(***************************************************************************)
JoinIdle ==
  /\ input_table_left = NoTable
  /\ input_table_right = NoTable
  /\ mode = "Inner"
  /\ predicate_condition = "Equals"
  /\ left_table = NoTable
  /\ right_table = NoTable
  /\ maybe_flipped_predicate_condition = "Equals"
  /\ pos_list_left = <<>>
  /\ pos_list_right = <<>>
  /\ right_matches = <<>>
  /\ chunk_id_left = 0
  /\ segments = <<>>
  /\ column_data_types = [left |-> "int", right |-> "int"]
  /\ right_join_output = <<>>

ScanIdle ==
  /\ scan_segment = [encoding |-> "Value", cells |-> <<>>]
  /\ scan_chunk_id = 0
  /\ position_filter = [present |-> FALSE, offsets |-> <<>>]
  /\ left_value = NullCell
  /\ right_value = NullCell
  /\ between_condition = "BetweenInclusive"
  /\ dictionary_end_id = INVALID_VALUE_ID
  /\ matches = <<>>

RuleIdle ==
  /\ lqp = <<>>
  /\ input_lqp = <<>>
  /\ pending = <<>>
  /\ passes = 0
  /\ map_iteration = "unobserved"
  /\ predicates_after_first_pass = <<>>

TableIdle ==
  /\ table_max_chunk_size = 1
  /\ table_chunks = <<>>
  /\ last_call = "none"
  /\ appenders = <<>>
  /\ append_mutex = 0
  /\ chunks_before = <<>>
  /\ table_type = "Data"
  /\ is_debug = FALSE

BloomIdle ==
  /\ bloom_max_chunk_size = ToLimbs(1, 4)
  /\ bloom_chunk_count = ToLimbs(0, 4)
  /\ bloom_chunk_id = ToLimbs(0, 4)
  /\ bloom_chunk_offset = ToLimbs(0, 4)
  /\ prev_rows = ToLimbs(0, 8)
  /\ row_number = ToLimbs(0, 8)
  /\ bloom_chunks_visited = 0

notJoinVars == <<joinInputVars, joinHistoryVars, scanVars, ruleVars, tableVars, bloomVars>>
notScanVars == <<joinVars, joinInputVars, joinHistoryVars, ruleVars, tableVars, bloomVars>>
notRuleVars == <<joinVars, joinInputVars, joinHistoryVars, scanVars, tableVars, bloomVars>>
notTableVars == <<joinVars, joinInputVars, joinHistoryVars, scanVars, ruleVars, bloomVars>>
notBloomVars == <<joinVars, joinInputVars, joinHistoryVars, scanVars, ruleVars, tableVars>>

(***************************************************************************)
(* The join operator as a state machine.                                   *)
(***************************************************************************)
JoinConstructed ==
  /\ pc = "join_constructed"
  /\ left_table = NoTable
  /\ right_table = NoTable
  /\ maybe_flipped_predicate_condition = predicate_condition
  /\ pos_list_left = <<>>
  /\ pos_list_right = <<>>
  /\ right_matches = <<>>
  /\ chunk_id_left = 0
  /\ segments = <<>>

InitJoin ==
  /\ input_table_left \in {JoinTable("L", cs) : cs \in JoinChunkLists}
  /\ input_table_right \in {JoinTable("R", cs) : cs \in JoinChunkLists}
  /\ mode \in JoinModes
  /\ predicate_condition \in PredicateConditions
  /\ column_data_types = [left |-> "int", right |-> "int"]
  /\ right_join_output = <<>>
  /\ JoinConstructed
  /\ ScanIdle
  /\ RuleIdle
  /\ TableIdle
  /\ BloomIdle

\* _on_execute up to the loop over the left chunks
OnExecuteBegin ==
  /\ pc = "join_constructed"
  /\ left_table' = IF mode = "Right" THEN input_table_right ELSE input_table_left
  /\ right_table' = IF mode = "Right" THEN input_table_left ELSE input_table_right
  /\ maybe_flipped_predicate_condition' =
       IF mode = "Right" THEN flip_predicate_condition(predicate_condition)
                         ELSE predicate_condition
  /\ pos_list_left' = <<>>
  /\ pos_list_right' = <<>>
  /\ right_matches' = [c \in 1..Len(right_table'.chunks) |-> <<>>]
  /\ chunk_id_left' = 0
  /\ pc' = "join_scan"
  /\ UNCHANGED <<input_table_left, input_table_right, mode, predicate_condition, segments>>
  /\ UNCHANGED notJoinVars

\* _join_two_untyped_segments: a string column and a column of another
\* data type cannot be joined
cannot_join(data_type_left, data_type_right) ==
  (data_type_left = "string") # (data_type_right = "string")

\* the first call of _join_two_untyped_segments fails
FailsOnDataTypes ==
  /\ Len(right_table.chunks) > 0
  /\ cannot_join(column_data_types.left, column_data_types.right)

\* one iteration of the loop over the left chunks
ScanLeftChunk ==
  /\ pc = "join_scan"
  /\ chunk_id_left < Len(left_table.chunks)
  /\ ~FailsOnDataTypes
  /\ LET segment_left == left_table.chunks[chunk_id_left + 1]
         left_matches == IF is_outer_join THEN Resize(<<>>, Len(segment_left)) ELSE <<>>
         scanned == ScanRightChunks(segment_left, chunk_id_left, 0,
                      [pos_list_left |-> pos_list_left, pos_list_right |-> pos_list_right,
                       left_matches |-> left_matches, right_matches |-> right_matches])
         padded == add_unmatched_left(scanned, chunk_id_left)
     IN /\ pos_list_left' = padded.pos_list_left
        /\ pos_list_right' = padded.pos_list_right
        /\ right_matches' = padded.right_matches
  /\ chunk_id_left' = chunk_id_left + 1
  /\ UNCHANGED <<pc, input_table_left, input_table_right, mode, predicate_condition,
                 left_table, right_table, maybe_flipped_predicate_condition, segments>>
  /\ UNCHANGED notJoinVars

\* the unmatched rows of the right side, Outer mode only
AddUnmatchedRightRows ==
  /\ pc = "join_scan"
  /\ chunk_id_left >= Len(left_table.chunks)
  /\ IF mode = "Outer"
       THEN \E garbage \in GarbageBits :
              LET rows == UnmatchedRightRows(garbage, 0, 0)
              IN /\ pos_list_left' = pos_list_left \o NullRowIDs(Len(rows))
                 /\ pos_list_right' = pos_list_right \o rows
       ELSE UNCHANGED <<pos_list_left, pos_list_right>>
  /\ pc' = "join_write"
  /\ UNCHANGED <<input_table_left, input_table_right, mode, predicate_condition,
                 left_table, right_table, maybe_flipped_predicate_condition,
                 right_matches, chunk_id_left, segments>>
  /\ UNCHANGED notJoinVars

\* the out-of-bounds read of right_matches may also end the process
UnmatchedRightRowsCrash ==
  /\ pc = "join_scan"
  /\ chunk_id_left >= Len(left_table.chunks)
  /\ mode = "Outer"
  /\ RightMatchesOutOfBounds
  /\ pc' = "join_crashed"
  /\ UNCHANGED joinVars
  /\ UNCHANGED notJoinVars

\* the output chunk with the segments of the scanned tables in the order
\* they were scanned in
WriteOutputNotSwappedBack ==
  /\ pc = "join_write"
  /\ segments' = write_output_chunks(write_output_chunks(<<>>, left_table, pos_list_left),
                                     right_table, pos_list_right)
  /\ pc' = "join_done"
  /\ UNCHANGED <<input_table_left, input_table_right, mode, predicate_condition,
                 left_table, right_table, maybe_flipped_predicate_condition,
                 pos_list_left, pos_list_right, right_matches, chunk_id_left>>
  /\ UNCHANGED notJoinVars

\* the output chunk
WriteOutput ==
  /\ pc = "join_write"
  /\ segments' = IF mode = "Right"
                   THEN write_output_chunks(write_output_chunks(<<>>, right_table, pos_list_right),
                                            left_table, pos_list_left)
                   ELSE write_output_chunks(write_output_chunks(<<>>, left_table, pos_list_left),
                                            right_table, pos_list_right)
  /\ pc' = "join_done"
  /\ UNCHANGED <<input_table_left, input_table_right, mode, predicate_condition,
                 left_table, right_table, maybe_flipped_predicate_condition,
                 pos_list_left, pos_list_right, right_matches, chunk_id_left>>
  /\ UNCHANGED notJoinVars

NextJoin ==
  \/ OnExecuteBegin
  \/ ScanLeftChunk
  \/ AddUnmatchedRightRows
  \/ UnmatchedRightRowsCrash
  \/ WriteOutput

SpecJoin == InitJoin /\ [][NextJoin]_vars

(***************************************************************************)
(* The join of columns of different data types.  The values of a string    *)
(* column are represented by numbers like those of any other column; the   *)
(* data type only decides whether the two columns can be joined.           *)
(***************************************************************************)
DataTypes == {"int", "string"}

\* chunks whose cells all hold the same value
PlainChunkLists ==
  {cs \in JoinChunkLists :
     \A i \in DOMAIN cs : \A j \in DOMAIN cs[i] : cs[i][j] = ValueCell(1)}

InitJoinTypes ==
  /\ input_table_left \in {JoinTable("L", cs) : cs \in PlainChunkLists}
  /\ input_table_right \in {JoinTable("R", cs) : cs \in PlainChunkLists}
  /\ mode \in JoinModes
  /\ predicate_condition \in PredicateConditions
  /\ column_data_types \in [left : DataTypes, right : DataTypes]
  /\ right_join_output = <<>>
  /\ JoinConstructed
  /\ ScanIdle
  /\ RuleIdle
  /\ TableIdle
  /\ BloomIdle

\* Fail("Cannot join String with non-String column") in the first call of
\* _join_two_untyped_segments of the loop over the left chunks
JoinFailsOnDataTypes ==
  /\ pc = "join_scan"
  /\ chunk_id_left < Len(left_table.chunks)
  /\ FailsOnDataTypes
  /\ pc' = "join_failed"
  /\ UNCHANGED joinVars
  /\ UNCHANGED notJoinVars

NextJoinTypes ==
  \/ OnExecuteBegin
  \/ ScanLeftChunk
  \/ JoinFailsOnDataTypes
  \/ AddUnmatchedRightRows
  \/ UnmatchedRightRowsCrash
  \/ WriteOutput

SpecJoinTypes == InitJoinTypes /\ [][NextJoinTypes]_vars

(***************************************************************************)
(* A Right join and, after it, the Left join of the same two tables the    *)
(* other way round under the flipped predicate.                            *)
(***************************************************************************)
InitJoinMirror ==
  /\ input_table_left \in {JoinTable("L", cs) : cs \in JoinChunkLists}
  /\ input_table_right \in {JoinTable("R", cs) : cs \in JoinChunkLists}
  /\ mode = "Right"
  /\ predicate_condition \in PredicateConditions
  /\ column_data_types = [left |-> "int", right |-> "int"]
  /\ right_join_output = <<>>
  /\ JoinConstructed
  /\ ScanIdle
  /\ RuleIdle
  /\ TableIdle
  /\ BloomIdle

\* the Left join of (R, L) is constructed once the Right join of (L, R)
\* has returned
ConstructMirroredJoin ==
  /\ pc = "join_done"
  /\ mode = "Right"
  /\ right_join_output' = segments
  /\ input_table_left' = input_table_right
  /\ input_table_right' = input_table_left
  /\ mode' = "Left"
  /\ predicate_condition' = flip_predicate_condition(predicate_condition)
  /\ pc' = "join_constructed"
  /\ left_table' = NoTable
  /\ right_table' = NoTable
  /\ maybe_flipped_predicate_condition' = predicate_condition'
  /\ pos_list_left' = <<>>
  /\ pos_list_right' = <<>>
  /\ right_matches' = <<>>
  /\ chunk_id_left' = 0
  /\ segments' = <<>>
  /\ UNCHANGED <<joinInputVars, scanVars, ruleVars, tableVars, bloomVars>>

NextJoinMirror ==
  \/ OnExecuteBegin
  \/ ScanLeftChunk
  \/ AddUnmatchedRightRows
  \/ WriteOutput
  \/ ConstructMirroredJoin

SpecJoinMirror == InitJoinMirror /\ [][NextJoinMirror]_vars

MirroredJoinDone == pc = "join_done" /\ mode = "Left" /\ right_join_output # <<>>

\* C14: the Right join of (L, R) under p has the row pairs of the Left join
\* of (R, L) under the flipped p, in the same order, with the components
\* exchanged back: its output chunk has the segment of L first, over the
\* rows of L, and the segment of R second, over the rows of R.
C14_RightJoinIsMirroredLeftJoin ==
  MirroredJoinDone =>
    /\ Len(right_join_output) = 2
    /\ Len(segments) = 2
    /\ right_join_output[1] = segments[2]
    /\ right_join_output[2] = segments[1]
    /\ right_join_output[1].referenced_table = "L"
    /\ right_join_output[2].referenced_table = "R"

\* both joins have returned; the Right join has matched rows, a row of R
\* without a match and a predicate that the flip changes
C14_Witness ==
  /\ MirroredJoinDone
  /\ predicate_condition \in {"LessThan", "GreaterThan", "LessThanEquals", "GreaterThanEquals"}
  /\ LET rows_of_L == right_join_output[1].pos_list
         rows_of_R == right_join_output[2].pos_list
     IN /\ \E i \in DOMAIN rows_of_L : rows_of_L[i] = NULL_ROW_ID
        /\ \E i \in DOMAIN rows_of_L :
             rows_of_L[i] # NULL_ROW_ID /\ rows_of_R[i] # rows_of_L[i]

(***************************************************************************)
(* Joins of References tables.  The reference segments of a table all      *)
(* refer to the same column of the same table, whose two chunks hold one   *)
(* row each; a NULL_ROW_ID in a position list is a NULL cell.              *)
(***************************************************************************)
ReferencedRowIDs == {RowID(0, 0), RowID(1, 0), NULL_ROW_ID}

referenced_cell(row) ==
  IF row = NULL_ROW_ID THEN NullCell ELSE ValueCell(row.chunk_id + 1)

PosLists == SeqsUpTo(SeqsUpTo(ReferencedRowIDs, MaxJoinRows), MaxJoinChunks)

ReferencesTable(name, referenced_table, referenced_column_id, pos_lists) ==
  [name |-> name,
   chunks |-> [c \in DOMAIN pos_lists |->
                 [o \in DOMAIN pos_lists[c] |-> referenced_cell(pos_lists[c][o])]],
   type |-> "References",
   reference_segments |->
     [c \in DOMAIN pos_lists |->
        ReferenceSegment(referenced_table, referenced_column_id, pos_lists[c])]]

ReferencesTables(name, referenced_table, referenced_column_id) ==
  {ReferencesTable(name, referenced_table, referenced_column_id, pos_lists) :
     pos_lists \in {ps \in PosLists : SumLen(ps) <= MaxJoinRows}}

InitJoinReferences ==
  /\ input_table_left \in
       {JoinTable("L", cs) : cs \in PlainChunkLists} \cup ReferencesTables("L", "StoredL", 1)
  /\ input_table_right \in
       {JoinTable("R", cs) : cs \in PlainChunkLists} \cup ReferencesTables("R", "StoredR", 2)
  /\ mode \in JoinModes
  /\ predicate_condition \in PredicateConditions
  /\ column_data_types = [left |-> "int", right |-> "int"]
  /\ right_join_output = <<>>
  /\ JoinConstructed
  /\ ScanIdle
  /\ RuleIdle
  /\ TableIdle
  /\ BloomIdle

SpecJoinReferences == InitJoinReferences /\ [][NextJoin]_vars

\* the position list the join has built over the rows of an input table,
\* and the output segment written for it
JoinPosListOf(input_table) ==
  IF (input_table = input_table_left) = (mode # "Right") THEN pos_list_left ELSE pos_list_right

OutputSegmentOf(input_table) ==
  IF input_table = input_table_left THEN segments[1] ELSE segments[2]

Dereferenced(input_table) ==
  LET rows == JoinPosListOf(input_table)
  IN [i \in DOMAIN rows |->
        IF rows[i] = NULL_ROW_ID
          THEN NULL_ROW_ID
          ELSE input_table.reference_segments[rows[i].chunk_id + 1]
                 .pos_list[rows[i].chunk_offset + 1]]

InputTables == {input_table_left, input_table_right}

\* C16: for a References input table with at least one chunk the output
\* segment refers to the table and the column the input's reference
\* segments refer to, and its position list holds, for every row r of the
\* join's position list, the entry r.chunk_offset of the position list of
\* the input's segment in chunk r.chunk_id, and NULL_ROW_ID for a NULL r;
\* also when the input has several chunks.
C16_ReferencesInputIsDereferenced ==
  (pc = "join_done") =>
    \A input_table \in InputTables :
      (input_table.type = "References" /\ Len(input_table.chunks) > 0) =>
        /\ \A c \in DOMAIN input_table.reference_segments :
             /\ OutputSegmentOf(input_table).referenced_table =
                  input_table.reference_segments[c].referenced_table
             /\ OutputSegmentOf(input_table).referenced_column_id =
                  input_table.reference_segments[c].referenced_column_id
        /\ OutputSegmentOf(input_table).pos_list = Dereferenced(input_table)

\* a finished join of a References table with two chunks whose output has
\* a row of the second chunk, referring to another row than its own RowID,
\* a NULL_ROW_ID of the input's position list and one of the join's
C16_Witness ==
  /\ pc = "join_done"
  /\ input_table_left.type = "References"
  /\ Len(input_table_left.chunks) = 2
  /\ LET rows == JoinPosListOf(input_table_left)
         out == OutputSegmentOf(input_table_left).pos_list
     IN /\ \E i \in DOMAIN rows :
             rows[i] # NULL_ROW_ID /\ rows[i].chunk_id = 1 /\ out[i] \notin {rows[i], NULL_ROW_ID}
        /\ \E i \in DOMAIN rows : rows[i] # NULL_ROW_ID /\ out[i] = NULL_ROW_ID
        /\ \E i \in DOMAIN rows : rows[i] = NULL_ROW_ID

\* the same for the right input under every mode that exchanges or keeps
\* the tables
ReferencesRightInputDereferenced ==
  /\ pc = "join_done"
  /\ mode = "Right"
  /\ input_table_right.type = "References"
  /\ Len(input_table_right.chunks) = 2
  /\ \E i \in DOMAIN segments[2].pos_list :
       /\ JoinPosListOf(input_table_right)[i] = RowID(1, 0)
       /\ segments[2].pos_list[i] = RowID(0, 0)

JoinsStringWithOther ==
  cannot_join(column_data_types.left, column_data_types.right)

\* C13: a join of a string column with a column of another data type fails
\* and returns no table, whatever the two input tables hold, tables
\* without chunks and with empty chunks included.
C13_StringJoinNeverReturns ==
  JoinsStringWithOther => pc # "join_done"

\* the same for two inputs that both have a chunk
StringJoinWithChunksNeverReturns ==
  (/\ JoinsStringWithOther
   /\ Len(input_table_left.chunks) > 0
   /\ Len(input_table_right.chunks) > 0) => pc \notin {"join_write", "join_done"}

(***************************************************************************)
(* Segments to scan.  A value segment is a sequence of cells.  A           *)
(* dictionary segment is a sorted dictionary of unique values and an       *)
(* attribute vector of value ids, the id unique_values_count standing for  *)
(* NULL.                                                                   *)
(***************************************************************************)
ValueSegment(cells) == [encoding |-> "Value", cells |-> cells]

DictionarySegment(dictionary, attribute_vector) ==
  [encoding |-> "Dictionary", dictionary |-> dictionary, attribute_vector |-> attribute_vector]

unique_values_count(segment) == Len(segment.dictionary)

SegmentSize(segment) ==
  IF segment.encoding = "Dictionary" THEN Len(segment.attribute_vector) ELSE Len(segment.cells)

\* the sorted sequence of the values of a set
RECURSIVE SortedSeq(_)
SortedSeq(S) ==
  IF S = {} THEN <<>>
  ELSE LET least == CHOOSE x \in S : \A y \in S : x <= y
       IN <<least>> \o SortedSeq(S \ {least})

ScanCells == {NullCell} \cup {ValueCell(v) : v \in 1..MaxScanValue}

ScanSegments ==
  {ValueSegment(cells) : cells \in SeqsUpTo(ScanCells, MaxScanRows)}
    \cup UNION {{DictionarySegment(SortedSeq(D), av) : av \in SeqsUpTo(0..Cardinality(D), MaxScanRows)} :
                  D \in SUBSET (1..MaxScanValue)}

\* the bounds of the scan: NULL, or a value from below to above every column value
ScanBounds == {NullCell} \cup {ValueCell(v) : v \in 0..(MaxScanValue + 1)}

NoPositionFilter == [present |-> FALSE, offsets |-> <<>>]

PositionFilters(segment) ==
  {NoPositionFilter}
    \cup {[present |-> TRUE, offsets |-> offsets] :
            offsets \in SeqsUpTo(0..(SegmentSize(segment) - 1), MaxScanRows)}

BetweenConditions ==
  {"BetweenInclusive", "BetweenLowerExclusive", "BetweenUpperExclusive", "BetweenExclusive"}

is_between_predicate_condition_lower_inclusive(condition) ==
  condition \in {"BetweenInclusive", "BetweenUpperExclusive"}

is_between_predicate_condition_upper_inclusive(condition) ==
  condition \in {"BetweenInclusive", "BetweenLowerExclusive"}

with_comparator_between(condition, value, lower, upper) ==
  /\ IF is_between_predicate_condition_lower_inclusive(condition)
       THEN value >= lower ELSE value > lower
  /\ IF is_between_predicate_condition_upper_inclusive(condition)
       THEN value <= upper ELSE value < upper

(***************************************************************************)
(* Iteration: the positions (value, is_null, chunk_offset) of a segment,   *)
(* all of them in offset order or, under a position filter, those of the   *)
(* filter in filter order with their original offsets.                     *)
(***************************************************************************)
VisitedOffsets(segment, filter) ==
  IF filter.present THEN filter.offsets ELSE [i \in 1..SegmentSize(segment) |-> i - 1]

\* the cell a segment stores at an offset
DecodedCell(segment, chunk_offset) ==
  IF segment.encoding = "Dictionary"
    THEN LET value_id == segment.attribute_vector[chunk_offset + 1]
         IN IF value_id = unique_values_count(segment)
              THEN NullCell
              ELSE ValueCell(segment.dictionary[value_id + 1])
    ELSE segment.cells[chunk_offset + 1]

SegmentPosition(value, is_null, chunk_offset) ==
  [value |-> value, is_null |-> is_null, chunk_offset |-> chunk_offset]

\* segment_with_iterators_filtered: the values of the segment
segment_with_iterators_filtered(segment, filter) ==
  LET offsets == VisitedOffsets(segment, filter)
  IN [i \in 1..Len(offsets) |->
        SegmentPosition(DecodedCell(segment, offsets[i]).value,
                        DecodedCell(segment, offsets[i]).is_null, offsets[i])]

\* create_iterable_from_attribute_vector: the value ids of a dictionary segment
attribute_vector_with_iterators(segment, filter) ==
  LET offsets == VisitedOffsets(segment, filter)
  IN [i \in 1..Len(offsets) |->
        SegmentPosition(segment.attribute_vector[offsets[i] + 1],
                        segment.attribute_vector[offsets[i] + 1] = unique_values_count(segment),
                        offsets[i])]

\* _scan_with_iterators<CheckForNull>; func maps a position to the outcome
\* of the functor on it
PositionsOf(positions) == {positions[i] : i \in DOMAIN positions}

scan_with_iterators(check_for_null, func, positions, chunk_id, matches_in) ==
  LET selected == SelectSeq(positions, LAMBDA p : (~check_for_null \/ ~p.is_null) /\ func[p])
  IN matches_in \o [i \in 1..Len(selected) |-> RowID(chunk_id, selected[i].chunk_offset)]

(***************************************************************************)
(* lower_bound and upper_bound of a dictionary segment: the value id of    *)
(* the first entry not less than, resp. greater than, the value; past the  *)
(* last entry the id is end_id.                                            *)
(***************************************************************************)
lower_bound(segment, value, end_id) ==
  LET n == Cardinality({i \in 1..Len(segment.dictionary) : segment.dictionary[i] < value})
  IN IF n = Len(segment.dictionary) THEN end_id ELSE n

upper_bound(segment, value, end_id) ==
  LET n == Cardinality({i \in 1..Len(segment.dictionary) : segment.dictionary[i] <= value})
  IN IF n = Len(segment.dictionary) THEN end_id ELSE n

EndIds(segment) == {INVALID_VALUE_ID, unique_values_count(segment)}

(***************************************************************************)
(* The two scan paths.  lo and hi are the non-NULL bounds.                 *)
(***************************************************************************)
scan_generic_segment_unchecked(segment, chunk_id, matches_in, filter, condition, lo, hi) ==
  LET positions == segment_with_iterators_filtered(segment, filter)
  IN scan_with_iterators(FALSE,
       [p \in PositionsOf(positions) |-> with_comparator_between(condition, p.value, lo, hi)],
       positions, chunk_id, matches_in)

scan_generic_segment(segment, chunk_id, matches_in, filter, condition, lo, hi) ==
  LET positions == segment_with_iterators_filtered(segment, filter)
  IN scan_with_iterators(TRUE,
       [p \in PositionsOf(positions) |-> with_comparator_between(condition, p.value, lo, hi)],
       positions, chunk_id, matches_in)

left_value_id_of(segment, condition, lo, end_id) ==
  IF is_between_predicate_condition_lower_inclusive(condition)
    THEN lower_bound(segment, lo, end_id)
    ELSE upper_bound(segment, lo, end_id)

right_value_id_always_inclusive(segment, condition, hi, end_id) ==
  LET id == upper_bound(segment, hi, end_id)
  IN IF id = INVALID_VALUE_ID THEN unique_values_count(segment) ELSE id

right_value_id_of(segment, condition, hi, end_id) ==
  LET id == IF is_between_predicate_condition_upper_inclusive(condition)
              THEN upper_bound(segment, hi, end_id)
              ELSE lower_bound(segment, hi, end_id)
  IN IF id = INVALID_VALUE_ID THEN unique_values_count(segment) ELSE id

\* the dictionary path with the range test done on signed differences
scan_dictionary_segment_signed(segment, chunk_id, matches_in, filter, condition, lo, hi, end_id) ==
  LET left_value_id == left_value_id_of(segment, condition, lo, end_id)
      right_value_id == right_value_id_of(segment, condition, hi, end_id)
      value_id_diff == right_value_id - left_value_id
  IN IF left_value_id = 0 /\ right_value_id = unique_values_count(segment)
       THEN LET positions == attribute_vector_with_iterators(segment, filter)
            IN scan_with_iterators(TRUE, [p \in PositionsOf(positions) |-> TRUE],
                                   positions, chunk_id, matches_in)
     ELSE IF \/ left_value_id = INVALID_VALUE_ID
             \/ UnsignedLessEq(unique_values_count(segment), left_value_id)
             \/ UnsignedLessEq(right_value_id, left_value_id)
       THEN matches_in
     ELSE LET positions == attribute_vector_with_iterators(segment, filter)
          IN scan_with_iterators(FALSE,
               [p \in PositionsOf(positions) |-> (p.value - left_value_id) < value_id_diff],
               positions, chunk_id, matches_in)

scan_dictionary_segment(segment, chunk_id, matches_in, filter, condition, lo, hi, end_id) ==
  LET left_value_id == left_value_id_of(segment, condition, lo, end_id)
      right_value_id == right_value_id_of(segment, condition, hi, end_id)
      value_id_diff == right_value_id - left_value_id
  IN IF left_value_id = 0 /\ right_value_id = unique_values_count(segment)
       THEN \* all values match
            LET positions == attribute_vector_with_iterators(segment, filter)
            IN scan_with_iterators(TRUE, [p \in PositionsOf(positions) |-> TRUE],
                                   positions, chunk_id, matches_in)
     ELSE IF \/ left_value_id = INVALID_VALUE_ID
             \/ UnsignedLessEq(unique_values_count(segment), left_value_id)
             \/ UnsignedLessEq(right_value_id, left_value_id)
       THEN \* no values match
            matches_in
     ELSE LET positions == attribute_vector_with_iterators(segment, filter)
          IN scan_with_iterators(FALSE,
               [p \in PositionsOf(positions) |->
                  UnsignedLess(p.value - left_value_id, value_id_diff)],
               positions, chunk_id, matches_in)

\* the scan that reads the bounds whether they are NULL or not
scan_reading_null_bounds(segment, chunk_id, matches_in, filter, condition, lo, hi, end_id) ==
  IF segment.encoding = "Dictionary"
    THEN scan_dictionary_segment(segment, chunk_id, matches_in, filter, condition,
                                 lo.value, hi.value, end_id)
    ELSE scan_generic_segment(segment, chunk_id, matches_in, filter, condition,
                              lo.value, hi.value)

scan_non_reference_segment(segment, chunk_id, matches_in, filter, condition, lo, hi, end_id) ==
  IF lo.is_null \/ hi.is_null
    THEN matches_in
  ELSE IF segment.encoding = "Dictionary"
    THEN scan_dictionary_segment(segment, chunk_id, matches_in, filter, condition,
                                 lo.value, hi.value, end_id)
    ELSE scan_generic_segment(segment, chunk_id, matches_in, filter, condition,
                              lo.value, hi.value)

(***************************************************************************)
(* The scan of one segment as a state machine.                             *)
(***************************************************************************)
InitScan ==
  /\ pc = "scan_constructed"
  /\ scan_segment \in ScanSegments
  /\ scan_chunk_id \in 0..MaxScanChunkId
  /\ position_filter \in PositionFilters(scan_segment)
  /\ left_value \in ScanBounds
  /\ right_value \in ScanBounds
  /\ between_condition \in BetweenConditions
  /\ dictionary_end_id \in
       IF scan_segment.encoding = "Dictionary" THEN EndIds(scan_segment) ELSE {INVALID_VALUE_ID}
  /\ matches = <<>>
  /\ JoinIdle
  /\ RuleIdle
  /\ TableIdle
  /\ BloomIdle

ScanNonReferenceSegment ==
  /\ pc = "scan_constructed"
  /\ matches' = scan_non_reference_segment(scan_segment, scan_chunk_id, matches, position_filter,
                                           between_condition, left_value, right_value,
                                           dictionary_end_id)
  /\ pc' = "scan_done"
  /\ UNCHANGED <<scan_segment, scan_chunk_id, position_filter, left_value, right_value,
                 between_condition, dictionary_end_id>>
  /\ UNCHANGED notScanVars

NextScan == ScanNonReferenceSegment

SpecScan == InitScan /\ [][NextScan]_vars

\* the rows a between scan has to emit: the visited rows, in the order
\* visited, whose value is not NULL and lies between the bounds
RECURSIVE ExpectedMatches(_, _)
ExpectedMatches(offsets, i) ==
  IF i > Len(offsets) THEN <<>>
  ELSE LET cell == DecodedCell(scan_segment, offsets[i])
           lower_ok == IF between_condition \in {"BetweenInclusive", "BetweenUpperExclusive"}
                         THEN left_value.value <= cell.value
                         ELSE left_value.value < cell.value
           upper_ok == IF between_condition \in {"BetweenInclusive", "BetweenLowerExclusive"}
                         THEN cell.value <= right_value.value
                         ELSE cell.value < right_value.value
       IN (IF ~cell.is_null /\ lower_ok /\ upper_ok
             THEN <<RowID(scan_chunk_id, offsets[i])>> ELSE <<>>)
          \o ExpectedMatches(offsets, i + 1)

ScanDoneWithBounds == pc = "scan_done" /\ ~left_value.is_null /\ ~right_value.is_null

\* C3: a column-between scan with non-NULL bounds over a value or
\* dictionary segment, with or without a position filter, emits exactly the
\* RowIDs of the visited rows whose value is not NULL and satisfies the
\* between condition, in input order.
C3_ScanEmitsExactlyTheMatches ==
  ScanDoneWithBounds =>
    matches = ExpectedMatches(VisitedOffsets(scan_segment, position_filter), 1)

\* a finished scan under a position filter that visited a NULL row and a
\* matching row
C3_Witness ==
  /\ ScanDoneWithBounds
  /\ position_filter.present
  /\ Len(matches) >= 1
  /\ Len(matches) < Len(position_filter.offsets)
  /\ \E i \in 1..Len(position_filter.offsets) :
       DecodedCell(scan_segment, position_filter.offsets[i]).is_null

\* C4: on every dictionary segment, for all non-NULL bounds and every
\* between condition, the dictionary path gives the position list the
\* generic value-comparing path gives.
C4_DictionaryPathIsGenericPath ==
  (ScanDoneWithBounds /\ scan_segment.encoding = "Dictionary") =>
    matches = scan_generic_segment(scan_segment, scan_chunk_id, <<>>, position_filter,
                                   between_condition, left_value.value, right_value.value)

\* a finished scan of a dictionary segment through the range test (value
\* ids 1 to 2 of a dictionary of two entries), with a NULL row and a
\* matching row
C4_Witness ==
  /\ ScanDoneWithBounds
  /\ scan_segment.encoding = "Dictionary"
  /\ left_value_id_of(scan_segment, between_condition, left_value.value, dictionary_end_id) = 1
  /\ right_value_id_of(scan_segment, between_condition, right_value.value, dictionary_end_id) = 2
  /\ Len(matches) = 1
  /\ \E i \in 1..Len(scan_segment.attribute_vector) :
       scan_segment.attribute_vector[i] = unique_values_count(scan_segment)

\* the branch the dictionary path takes for the bounds of the scan
DictionaryBranch ==
  LET left_value_id == left_value_id_of(scan_segment, between_condition, left_value.value,
                                        dictionary_end_id)
      right_value_id == right_value_id_of(scan_segment, between_condition, right_value.value,
                                          dictionary_end_id)
  IN IF left_value_id = 0 /\ right_value_id = unique_values_count(scan_segment)
       THEN "all"
     ELSE IF \/ left_value_id = INVALID_VALUE_ID
             \/ UnsignedLessEq(unique_values_count(scan_segment), left_value_id)
             \/ UnsignedLessEq(right_value_id, left_value_id)
       THEN "none"
     ELSE "range"

VisitsNullRow ==
  \E i \in DOMAIN VisitedOffsets(scan_segment, position_filter) :
    DecodedCell(scan_segment, VisitedOffsets(scan_segment, position_filter)[i]).is_null

\* C15: with a NULL lower or upper bound the scan appends no position,
\* whatever the segment, its encoding and the position filter; with
\* non-NULL bounds no emitted position is the one of a row whose value is
\* NULL, on the generic path and on each branch of the dictionary path.
C15_NullsNeverMatch ==
  (pc = "scan_done") =>
    /\ (left_value.is_null \/ right_value.is_null) => matches = <<>>
    /\ \A i \in DOMAIN matches :
         /\ matches[i].chunk_id = scan_chunk_id
         /\ matches[i].chunk_offset \in 0..(SegmentSize(scan_segment) - 1)
         /\ ~DecodedCell(scan_segment, matches[i].chunk_offset).is_null

\* a finished scan with one NULL bound over a segment with a row that the
\* other bound alone would let through
C15_Witness ==
  /\ pc = "scan_done"
  /\ left_value.is_null
  /\ ~right_value.is_null
  /\ matches = <<>>
  /\ between_condition = "BetweenInclusive"
  /\ \E i \in DOMAIN VisitedOffsets(scan_segment, position_filter) :
       LET cell == DecodedCell(scan_segment, VisitedOffsets(scan_segment, position_filter)[i])
       IN ~cell.is_null /\ cell.value <= right_value.value

\* finished scans with non-NULL bounds that visited a NULL row and emitted
\* a position: on the generic path and on the two dictionary branches that
\* emit; and one on the dictionary branch that emits nothing
NullRowSkippedOnGenericPath ==
  ScanDoneWithBounds /\ scan_segment.encoding # "Dictionary" /\ VisitsNullRow /\ matches # <<>>

NullRowSkippedWhenAllValuesMatch ==
  /\ ScanDoneWithBounds /\ scan_segment.encoding = "Dictionary" /\ VisitsNullRow
  /\ DictionaryBranch = "all" /\ matches # <<>>

NullRowSkippedInRange ==
  /\ ScanDoneWithBounds /\ scan_segment.encoding = "Dictionary" /\ VisitsNullRow
  /\ DictionaryBranch = "range" /\ matches # <<>>

NullRowSkippedWhenNoValueMatches ==
  /\ ScanDoneWithBounds /\ scan_segment.encoding = "Dictionary" /\ VisitsNullRow
  /\ DictionaryBranch = "none"

\* the value ids the dictionary path computes for the bounds of the scan
LeftValueId ==
  left_value_id_of(scan_segment, between_condition, left_value.value, dictionary_end_id)

RightValueId ==
  right_value_id_of(scan_segment, between_condition, right_value.value, dictionary_end_id)

InRangeBranch ==
  ScanDoneWithBounds /\ scan_segment.encoding = "Dictionary" /\ DictionaryBranch = "range"

CodeAt(chunk_offset) == scan_segment.attribute_vector[chunk_offset + 1]

\* the visited rows whose code lies in the range of the bounds
RECURSIVE RowsInRange(_, _)
RowsInRange(offsets, i) ==
  IF i > Len(offsets) THEN <<>>
  ELSE (IF LeftValueId <= CodeAt(offsets[i]) /\ CodeAt(offsets[i]) < RightValueId
          THEN <<RowID(scan_chunk_id, offsets[i])>> ELSE <<>>)
       \o RowsInRange(offsets, i + 1)

\* C20: in the range branch of the dictionary path the unsigned test
\* (code - left_value_id) mod 2^32 < right_value_id - left_value_id holds
\* for a code of 0..unique_values_count exactly when
\* left_value_id <= code < right_value_id: it fails for a code below
\* left_value_id, whose difference wraps, and for the NULL code; the scan
\* emits the visited rows with a code in the range and no other.
C20_RangeTestIsTheInterval ==
  InRangeBranch =>
    /\ \A code \in 0..unique_values_count(scan_segment) :
         UnsignedLess(code - LeftValueId, RightValueId - LeftValueId)
           <=> (LeftValueId <= code /\ code < RightValueId)
    /\ ~UnsignedLess(unique_values_count(scan_segment) - LeftValueId,
                      RightValueId - LeftValueId)
    /\ matches = RowsInRange(VisitedOffsets(scan_segment, position_filter), 1)

\* a scan in the range branch that visited a row with a code below the left
\* value id, whose difference wraps, and a row in the range
C20_Witness ==
  /\ InRangeBranch
  /\ matches # <<>>
  /\ \E i \in DOMAIN VisitedOffsets(scan_segment, position_filter) :
       /\ CodeAt(VisitedOffsets(scan_segment, position_filter)[i]) < LeftValueId
       /\ CodeAt(VisitedOffsets(scan_segment, position_filter)[i]) - LeftValueId < 0

\* a scan in the range branch that visited a row with the NULL code and a
\* row in the range
RangeTestFailsForNullCode ==
  /\ InRangeBranch
  /\ matches # <<>>
  /\ \E i \in DOMAIN VisitedOffsets(scan_segment, position_filter) :
       CodeAt(VisitedOffsets(scan_segment, position_filter)[i]) = unique_values_count(scan_segment)

(***************************************************************************)
(* The inputs of scenario S6 of the spec (left column [1, 2, NULL], right  *)
(* column [2, 3]) and their neighbourhood: every prefix of the two         *)
(* columns, cut into at most two chunks, under every mode and predicate.   *)
(***************************************************************************)
S6LeftColumn == <<ValueCell(1), ValueCell(2), NullCell>>
S6RightColumn == <<ValueCell(2), ValueCell(3)>>

Chunkings(column) ==
  {<<>>}
    \cup {<<SubSeq(column, 1, n)>> : n \in 0..Len(column)}
    \cup {<<SubSeq(column, 1, k), SubSeq(column, k + 1, n)>> :
            k \in 0..Len(column), n \in 0..Len(column)}

InitJoinS6 ==
  /\ input_table_left \in {JoinTable("L", cs) : cs \in Chunkings(S6LeftColumn)}
  /\ input_table_right \in {JoinTable("R", cs) : cs \in Chunkings(S6RightColumn)}
  /\ mode \in JoinModes
  /\ predicate_condition \in PredicateConditions
  /\ column_data_types = [left |-> "int", right |-> "int"]
  /\ right_join_output = <<>>
  /\ JoinConstructed
  /\ ScanIdle
  /\ RuleIdle
  /\ TableIdle
  /\ BloomIdle

SpecJoinS6 == InitJoinS6 /\ [][NextJoin]_vars

(***************************************************************************)
(* The output of the join in terms of the operator's two inputs.           *)
(***************************************************************************)
OutputPosList(name) ==
  segments[CHOOSE i \in 1..Len(segments) : segments[i].referenced_table = name].pos_list

OutL == OutputPosList("L")
OutR == OutputPosList("R")

RowIDsOf(table) ==
  UNION {{RowID(c - 1, o - 1) : o \in 1..Len(table.chunks[c])} : c \in 1..Len(table.chunks)}

CellAt(table, row_id) == table.chunks[row_id.chunk_id + 1][row_id.chunk_offset + 1]

\* the reference semantics: both values non-NULL and the predicate holds
RowsMatch(l, r) ==
  /\ ~CellAt(input_table_left, l).is_null
  /\ ~CellAt(input_table_right, r).is_null
  /\ with_comparator(predicate_condition, CellAt(input_table_left, l).value,
                     CellAt(input_table_right, r).value)

ExpectedCount(l, r) ==
  IF l # NULL_ROW_ID /\ r # NULL_ROW_ID
    THEN (IF RowsMatch(l, r) THEN 1 ELSE 0)
  ELSE IF l # NULL_ROW_ID
    THEN (IF mode \in {"Left", "Outer"}
             /\ \A r2 \in RowIDsOf(input_table_right) : ~RowsMatch(l, r2) THEN 1 ELSE 0)
  ELSE IF r # NULL_ROW_ID
    THEN (IF mode \in {"Right", "Outer"}
             /\ \A l2 \in RowIDsOf(input_table_left) : ~RowsMatch(l2, r) THEN 1 ELSE 0)
  ELSE 0

ActualCount(l, r) == Cardinality({k \in 1..Len(OutL) : OutL[k] = l /\ OutR[k] = r})

OutputIsReference ==
  /\ Len(OutL) = Len(OutR)
  /\ \A k \in 1..Len(OutL) :
       /\ OutL[k] \in RowIDsOf(input_table_left) \cup {NULL_ROW_ID}
       /\ OutR[k] \in RowIDsOf(input_table_right) \cup {NULL_ROW_ID}
  /\ \A l \in RowIDsOf(input_table_left) \cup {NULL_ROW_ID},
        r \in RowIDsOf(input_table_right) \cup {NULL_ROW_ID} :
       ActualCount(l, r) = ExpectedCount(l, r)

\* C1: for every pair of inputs, predicate and mode, the multiset of
\* (left_row, right_row) pairs of the join output is the reference
\* nested-loop evaluation with NULL filtering, with the unmatched rows of
\* the outer sides padded exactly once and no padding in Inner mode.
C1_JoinOutputIsReference == pc = "join_done" => OutputIsReference

\* The same statement away from the input that makes the final pass read
\* right_matches out of bounds (Outer mode, no left chunk, some right row).
JoinOutputIsReferenceInBounds ==
  (pc = "join_done" /\ ~(mode = "Outer" /\ RightMatchesOutOfBounds)) => OutputIsReference

(***************************************************************************)
(* Order of the output rows, on the position lists of _on_execute (left    *)
(* and right are the inputs after the swap of Right mode).                 *)
(***************************************************************************)
LexLess(a, b) ==
  \E i \in 1..Len(a) : a[i] < b[i] /\ \A j \in 1..(i - 1) : a[j] = b[j]

IsMatchedRow(k) == pos_list_left[k] # NULL_ROW_ID /\ pos_list_right[k] # NULL_ROW_ID
IsUnmatchedLeftRow(k) == pos_list_left[k] # NULL_ROW_ID /\ pos_list_right[k] = NULL_ROW_ID
IsUnmatchedRightRow(k) == pos_list_left[k] = NULL_ROW_ID

RowMajorKey(k) ==
  <<pos_list_left[k].chunk_id, pos_list_left[k].chunk_offset,
    pos_list_right[k].chunk_id, pos_list_right[k].chunk_offset>>

ChunkMajorKey(k) ==
  <<pos_list_left[k].chunk_id, pos_list_right[k].chunk_id,
    pos_list_left[k].chunk_offset, pos_list_right[k].chunk_offset>>

\* C5 as stated: the matched rows are in lexicographic order of (left chunk
\* id, left offset, right chunk id, right offset).
C5_MatchedRowsRowMajor ==
  pc = "join_done" =>
    \A i, j \in 1..Len(pos_list_left) :
      (i < j /\ IsMatchedRow(i) /\ IsMatchedRow(j)) => LexLess(RowMajorKey(i), RowMajorKey(j))

\* C5 as amended: the matched rows are in lexicographic order of (left chunk
\* id, right chunk id, left offset, right offset).
C5_MatchedRowsChunkMajor ==
  pc = "join_done" =>
    \A i, j \in 1..Len(pos_list_left) :
      (i < j /\ IsMatchedRow(i) /\ IsMatchedRow(j)) => LexLess(ChunkMajorKey(i), ChunkMajorKey(j))

\* a finished join whose right input has two chunks that both match both
\* rows of one left chunk
C5_Witness ==
  /\ pc = "join_done"
  /\ Len(right_table.chunks) = 2
  /\ \E i, j \in 1..Len(pos_list_left) :
       /\ i < j /\ IsMatchedRow(i) /\ IsMatchedRow(j)
       /\ pos_list_left[i].chunk_id = pos_list_left[j].chunk_id
       /\ pos_list_left[i].chunk_offset > pos_list_left[j].chunk_offset
       /\ pos_list_right[i].chunk_id < pos_list_right[j].chunk_id

\* C6: the padded rows of the unmatched rows of a left chunk come after
\* every matched row of that chunk and before every row of a later left
\* chunk; the padded rows of the unmatched right rows (Outer mode) come
\* after every other row, in (right chunk id, right offset) order.
C6_UnmatchedRowsOrder ==
  pc = "join_done" =>
    /\ \A k, j \in 1..Len(pos_list_left) :
         IsUnmatchedLeftRow(k) =>
           /\ (IsMatchedRow(j) /\ pos_list_left[j].chunk_id = pos_list_left[k].chunk_id) => j < k
           /\ (~IsUnmatchedRightRow(j) /\ pos_list_left[j].chunk_id > pos_list_left[k].chunk_id)
                => k < j
    /\ \A k, j \in 1..Len(pos_list_left) :
         IsUnmatchedRightRow(k) =>
           /\ ~IsUnmatchedRightRow(j) => j < k
           /\ (IsUnmatchedRightRow(j) /\ k < j) =>
                LexLess(<<pos_list_right[k].chunk_id, pos_list_right[k].chunk_offset>>,
                        <<pos_list_right[j].chunk_id, pos_list_right[j].chunk_offset>>)

\* a finished Outer join in which row 0 of a left chunk is unmatched and
\* padded after the matched row 1 of the same chunk, and some right row is
\* unmatched
C6_Witness ==
  /\ pc = "join_done"
  /\ mode = "Outer"
  /\ \E k, j \in 1..Len(pos_list_left) :
       /\ IsUnmatchedLeftRow(k) /\ IsMatchedRow(j)
       /\ pos_list_left[k].chunk_id = pos_list_left[j].chunk_id
       /\ pos_list_left[k].chunk_offset < pos_list_left[j].chunk_offset
  /\ \E k \in 1..Len(pos_list_left) : IsUnmatchedRightRow(k)

\* a finished Outer join with two unmatched right rows
C6_WitnessRight ==
  /\ pc = "join_done"
  /\ mode = "Outer"
  /\ Cardinality({k \in 1..Len(pos_list_left) : IsUnmatchedRightRow(k)}) >= 2

(***************************************************************************)
(* Scenario S6.                                                            *)
(***************************************************************************)
IsScenarioS6 ==
  /\ mode = "Left"
  /\ predicate_condition = "Equals"
  /\ input_table_left.chunks = <<S6LeftColumn>>
  /\ input_table_right.chunks = <<S6RightColumn>>

\* C7 as stated: the Left join of [1, 2, NULL] and [2, 3] on equality gives
\* (row0, NULL), (row1, right0), (row2, NULL) in that order.
C7_S6InLeftRowOrder ==
  (pc = "join_done" /\ IsScenarioS6) =>
    /\ OutL = <<RowID(0, 0), RowID(0, 1), RowID(0, 2)>>
    /\ OutR = <<NULL_ROW_ID, RowID(0, 0), NULL_ROW_ID>>

\* C7 as amended: it gives (row1, right0), (row0, NULL), (row2, NULL) in
\* that order: the matched row first, then the padded unmatched left rows.
C7_S6MatchedRowsFirst ==
  (pc = "join_done" /\ IsScenarioS6) =>
    /\ OutL = <<RowID(0, 1), RowID(0, 0), RowID(0, 2)>>
    /\ OutR = <<RowID(0, 0), NULL_ROW_ID, NULL_ROW_ID>>

C7_Witness == pc = "join_done" /\ IsScenarioS6 /\ Len(OutL) = 3

\* the final pass over the right rows is about to read right_matches
ReadsRightMatches ==
  /\ pc = "join_scan"
  /\ mode = "Outer"
  /\ chunk_id_left >= Len(left_table.chunks)

RightMatchesFitChunks ==
  /\ Len(right_matches) = Len(right_table.chunks)
  /\ \A c \in DOMAIN right_matches : Len(right_matches[c]) = Len(right_table.chunks[c])

RECURSIVE AllRowIDs(_, _)
AllRowIDs(chunks, c) ==
  IF c > Len(chunks) THEN <<>>
  ELSE [o \in 1..Len(chunks[c]) |-> RowID(c - 1, o - 1)] \o AllRowIDs(chunks, c + 1)

\* C21: in Outer mode, when the final pass reads right_matches[cr][offset],
\* right_matches[cr] has as many entries as right chunk cr has rows, for
\* every right chunk and every input; with a left input of zero chunks the
\* pass stays in bounds and the join returns (NULL_ROW_ID, row) for every
\* right row.
C21_RightMatchesInBounds ==
  /\ ReadsRightMatches => RightMatchesFitChunks
  /\ pc # "join_crashed"
  /\ (pc = "join_done" /\ mode = "Outer" /\ Len(input_table_left.chunks) = 0) =>
       /\ pos_list_right = AllRowIDs(input_table_right.chunks, 1)
       /\ pos_list_left = NullRowIDs(Len(pos_list_right))

\* the same for the left inputs with at least one chunk
RightMatchesInBoundsWithLeftChunk ==
  Len(input_table_left.chunks) > 0 =>
    /\ ReadsRightMatches => RightMatchesFitChunks
    /\ pc # "join_crashed"

\* with a left input of zero chunks the vectors are empty: the pass is in
\* bounds only when the right input has no row
RightMatchesEmptyWithoutLeftChunk ==
  (ReadsRightMatches /\ Len(left_table.chunks) = 0) =>
    \A c \in DOMAIN right_matches : right_matches[c] = <<>>

(***************************************************************************)
(* BetweenCompositionRule.  Expressions: a column, a value, a binary       *)
(* comparison of two operands, a between predicate, a logical AND or OR of *)
(* two expressions, and LIKE and IN predicates.                            *)
(***************************************************************************)
Columns == {"a", "b"}
RuleValues == 1 .. MaxRuleValue

ColumnExpression(c) == [kind |-> "Column", column |-> c]
ValueExpression(v) == [kind |-> "Value", value |-> v]
NoExpression == [kind |-> "None"]

BinaryPredicateExpression(condition, l, r) ==
  [kind |-> "Binary", predicate_condition |-> condition,
   left_operand |-> l, right_operand |-> r]

BetweenExpression(condition, column, lower, upper) ==
  [kind |-> "Between", predicate_condition |-> condition,
   value |-> column, lower_bound |-> lower, upper_bound |-> upper]

LogicalExpression(operator, l, r) ==
  [kind |-> "Logical", logical_operator |-> operator,
   left_operand |-> l, right_operand |-> r]

LikeExpression(column, pattern) ==
  [kind |-> "Like", value |-> column, pattern |-> pattern]

InExpression(column, set) == [kind |-> "In", value |-> column, set |-> set]

(***************************************************************************)
(* The plan: a sequence of nodes, a node's id being its place in it; 0 is  *)
(* the null pointer.  Nodes are never freed in the model: a node nothing   *)
(* points to any more stays in the sequence without inputs or outputs.     *)
(***************************************************************************)
NullNode == 0

LQPNode(type, predicate, left) ==
  [type |-> type, predicate |-> predicate, left_input |-> left,
   right_input |-> NullNode]

PredicateNode(predicate) == LQPNode("Predicate", predicate, NullNode)

\* the outputs of a node with the side they hold it on
Outputs(plan, node) ==
  {<<m, "left">> : m \in {k \in DOMAIN plan : plan[k].left_input = node}}
  \cup {<<m, "right">> : m \in {k \in DOMAIN plan : plan[k].right_input = node}}

set_input(plan, node, side, input) ==
  IF side = "left" THEN [plan EXCEPT ![node].left_input = input]
  ELSE [plan EXCEPT ![node].right_input = input]

InputOf(plan, node, side) ==
  IF side = "left" THEN plan[node].left_input ELSE plan[node].right_input

\* lqp_remove_node: untie the node from its left input and tie its outputs
\* to that input
lqp_remove_node(plan, node) ==
  LET left == plan[node].left_input
  IN [m \in DOMAIN plan |->
        IF m = node THEN [plan[m] EXCEPT !.left_input = NullNode]
        ELSE [plan[m] EXCEPT
                !.left_input = IF @ = node THEN left ELSE @,
                !.right_input = IF @ = node THEN left ELSE @]]

(***************************************************************************)
(* flatten_logical_expressions: the operands of a nest of ANDs, in the     *)
(* breadth-first order of the expression visitor.                          *)
(***************************************************************************)
RECURSIVE FlattenQueue(_, _)
FlattenQueue(queue, operator) ==
  IF queue = <<>> THEN <<>>
  ELSE LET e == Head(queue)
       IN IF e.kind = "Logical" /\ e.logical_operator = operator
          THEN FlattenQueue(Tail(queue) \o <<e.left_operand, e.right_operand>>,
                            operator)
          ELSE <<e>> \o FlattenQueue(Tail(queue), operator)

flatten_logical_expressions(expression, operator) ==
  FlattenQueue(<<expression>>, operator)

(***************************************************************************)
(* _get_boundary: the boundary a binary comparison of a column and a value *)
(* stands for, in either order of the operands.                            *)
(***************************************************************************)
ColumnBoundary(column, value, type) ==
  [column_expression |-> column, value_expression |-> value, type |-> type]

get_boundary(expression) ==
  LET l == expression.left_operand
      r == expression.right_operand
      cond == expression.predicate_condition
  IN IF l.kind = "Column" /\ r.kind = "Value"
     THEN ColumnBoundary(l, r,
            CASE cond = "LessThanEquals" -> "UpperBoundaryInclusive"
              [] cond = "GreaterThanEquals" -> "LowerBoundaryInclusive"
              [] cond = "LessThan" -> "UpperBoundaryExclusive"
              [] cond = "GreaterThan" -> "LowerBoundaryExclusive"
              [] OTHER -> "None")
     ELSE IF l.kind = "Value" /\ r.kind = "Column"
     THEN ColumnBoundary(r, l,
            CASE cond = "GreaterThanEquals" -> "UpperBoundaryInclusive"
              [] cond = "LessThanEquals" -> "LowerBoundaryInclusive"
              [] cond = "GreaterThan" -> "UpperBoundaryExclusive"
              [] cond = "LessThan" -> "LowerBoundaryExclusive"
              [] OTHER -> "None")
     ELSE ColumnBoundary(NoExpression, NoExpression, "None")

\* get_between_predicate_condition
get_between_predicate_condition(left_inclusive, right_inclusive) ==
  IF left_inclusive /\ right_inclusive THEN "BetweenInclusive"
  ELSE IF left_inclusive /\ ~right_inclusive THEN "BetweenUpperExclusive"
  ELSE IF ~left_inclusive /\ right_inclusive THEN "BetweenLowerExclusive"
  ELSE "BetweenExclusive"

(***************************************************************************)
(* _replace_predicates, first loop: every predicate of the run is sorted   *)
(* into the nodes that are kept (predicate_nodes) and the boundaries of    *)
(* its comparisons (column_boundaries), and is removed from the plan.      *)
(* The state of the function is a record of its locals and the plan.       *)
(***************************************************************************)
NoBoundaries == [c \in Columns |-> <<>>]

ReplaceState(plan) ==
  [plan |-> plan, predicate_nodes |-> <<>>, between_nodes |-> <<>>,
   column_boundaries |-> NoBoundaries, inserted_keys |-> <<>>,
   lower_bound_value_expression |-> NoExpression,
   upper_bound_value_expression |-> NoExpression,
   lower_inclusive |-> FALSE, upper_inclusive |-> FALSE]

\* the binary comparisons among the operands of a predicate
BinaryExpressionsOf(predicate) ==
  IF predicate.kind = "Binary" THEN <<predicate>>
  ELSE IF predicate.kind = "Logical" /\ predicate.logical_operator = "And"
  THEN SelectSeq(flatten_logical_expressions(predicate, "And"),
                 LAMBDA e : e.kind = "Binary")
  ELSE <<>>

\* anything but a comparison or an AND is kept as it is
IsKeptAsItIs(predicate) ==
  /\ predicate.kind # "Binary"
  /\ ~(predicate.kind = "Logical" /\ predicate.logical_operator = "And")

RECURSIVE SortExpressions(_, _, _)
SortExpressions(expressions, predicate, st) ==
  IF expressions = <<>> THEN st
  ELSE LET boundary == get_boundary(Head(expressions))
           c == boundary.column_expression.column
           st1 == IF boundary.type # "None"
                  THEN [st EXCEPT !.column_boundaries[c] = Append(@, boundary),
                                  !.inserted_keys =
                                     IF st.column_boundaries[c] = <<>>
                                     THEN Append(@, c) ELSE @]
                  ELSE [st EXCEPT !.predicate_nodes = Append(@, predicate)]
       IN SortExpressions(Tail(expressions), predicate, st1)

RECURSIVE SortPredicates(_, _)
SortPredicates(predicates, st) ==
  IF predicates = <<>> THEN st
  ELSE LET predicate == Head(predicates)
           expression == st.plan[predicate].predicate
           st1 == IF IsKeptAsItIs(expression)
                  THEN [st EXCEPT !.predicate_nodes = Append(@, predicate)]
                  ELSE st
           st2 == SortExpressions(BinaryExpressionsOf(expression), predicate, st1)
           st3 == [st2 EXCEPT !.plan = lqp_remove_node(@, predicate)]
       IN SortPredicates(Tail(predicates), st3)

(***************************************************************************)
(* _replace_predicates, second loop: per column, the best lower and upper  *)
(* bound of its boundaries.  The four tests say when a boundary replaces   *)
(* the bound found so far.                                                 *)
(***************************************************************************)
replaces_upper_inclusive(upper, value) == upper > value
replaces_lower_inclusive(lower, value) == lower < value
replaces_upper_exclusive(upper, value) == upper >= value
replaces_lower_exclusive_on_greater_only(lower, value) == lower < value
replaces_lower_exclusive(lower, value) == lower <= value

select_bound(st, boundary) ==
  LET value == boundary.value_expression
      no_upper == st.upper_bound_value_expression = NoExpression
      no_lower == st.lower_bound_value_expression = NoExpression
  IN CASE boundary.type = "UpperBoundaryInclusive" ->
            IF no_upper \/ replaces_upper_inclusive(
                             st.upper_bound_value_expression.value, value.value)
            THEN [st EXCEPT !.upper_bound_value_expression = value,
                            !.upper_inclusive = TRUE]
            ELSE st
       [] boundary.type = "LowerBoundaryInclusive" ->
            IF no_lower \/ replaces_lower_inclusive(
                             st.lower_bound_value_expression.value, value.value)
            THEN [st EXCEPT !.lower_bound_value_expression = value,
                            !.lower_inclusive = TRUE]
            ELSE st
       [] boundary.type = "UpperBoundaryExclusive" ->
            IF no_upper \/ replaces_upper_exclusive(
                             st.upper_bound_value_expression.value, value.value)
            THEN [st EXCEPT !.upper_bound_value_expression = value,
                            !.upper_inclusive = FALSE]
            ELSE st
       [] boundary.type = "LowerBoundaryExclusive" ->
            IF no_lower \/ replaces_lower_exclusive(
                             st.lower_bound_value_expression.value, value.value)
            THEN [st EXCEPT !.lower_bound_value_expression = value,
                            !.lower_inclusive = FALSE]
            ELSE st
       [] OTHER -> st

RECURSIVE SelectBounds(_, _)
SelectBounds(boundaries, st) ==
  IF boundaries = <<>> THEN st
  ELSE SelectBounds(Tail(boundaries), select_bound(st, Head(boundaries)))

\* the comparison a boundary is turned back into
BoundaryCondition(type) ==
  CASE type = "LowerBoundaryInclusive" -> "GreaterThanEquals"
    [] type = "LowerBoundaryExclusive" -> "GreaterThan"
    [] type = "UpperBoundaryInclusive" -> "LessThanEquals"
    [] type = "UpperBoundaryExclusive" -> "LessThan"

\* PredicateNode::make: a new node at the end of the plan
RECURSIVE ReinsertBoundaries(_, _)
ReinsertBoundaries(boundaries, st) ==
  IF boundaries = <<>> THEN st
  ELSE LET boundary == Head(boundaries)
           node == PredicateNode(BinaryPredicateExpression(
                     BoundaryCondition(boundary.type),
                     boundary.column_expression, boundary.value_expression))
           st1 == [st EXCEPT !.plan = Append(@, node),
                             !.predicate_nodes = Append(@, Len(st.plan) + 1)]
       IN ReinsertBoundaries(Tail(boundaries), st1)

\* the body of the loop over column_boundaries for one column
compose_column(st, column) ==
  LET boundaries == st.column_boundaries[column]
      st1 == SelectBounds(boundaries, st)
      st2 == IF /\ st1.lower_bound_value_expression # NoExpression
                /\ st1.upper_bound_value_expression # NoExpression
             THEN LET between_node ==
                        PredicateNode(BetweenExpression(
                          get_between_predicate_condition(st1.lower_inclusive,
                                                          st1.upper_inclusive),
                          boundaries[1].column_expression,
                          st1.lower_bound_value_expression,
                          st1.upper_bound_value_expression))
                  IN [st1 EXCEPT !.plan = Append(@, between_node),
                                 !.between_nodes = Append(@, Len(st1.plan) + 1)]
             ELSE ReinsertBoundaries(boundaries, st1)
  IN [st2 EXCEPT !.lower_bound_value_expression = NoExpression,
                 !.upper_bound_value_expression = NoExpression]

\* the loop over column_boundaries; order is the order the map hands out
\* its keys in
RECURSIVE ComposeColumns(_, _)
ComposeColumns(order, st) ==
  IF order = <<>> THEN st
  ELSE ComposeColumns(Tail(order), compose_column(st, Head(order)))

(***************************************************************************)
(* The order an unordered map hands out its keys in is not specified; it   *)
(* is a function of the hashes of the keys and of the order they were      *)
(* inserted in that depends on the build.  The model knows four such       *)
(* functions: the order of insertion, its reverse, and the two orders of   *)
(* the hashes of the columns.                                              *)
(***************************************************************************)
MapIterations ==
  {"insertion", "reverse_insertion", "hash_ascending", "hash_descending"}

Reverse(s) == [i \in 1 .. Len(s) |-> s[Len(s) + 1 - i]]

KeyOrder(iteration, inserted_keys) ==
  LET present(c) == \E i \in DOMAIN inserted_keys : inserted_keys[i] = c
  IN CASE iteration = "insertion" -> inserted_keys
       [] iteration = "reverse_insertion" -> Reverse(inserted_keys)
       [] iteration = "hash_ascending" -> SelectSeq(<<"a", "b">>, present)
       [] iteration = "hash_descending" -> SelectSeq(<<"b", "a">>, present)

(***************************************************************************)
(* _replace_predicates, the end: the kept nodes, then the re-inserted      *)
(* boundaries, then the between nodes are tied into a chain between the    *)
(* input of the run and its outputs.  With no node at all, back() and the  *)
(* loop bound size() - 1 are undefined: the call is taken to crash.        *)
(***************************************************************************)
RECURSIVE ConnectPredicates(_, _, _)
ConnectPredicates(plan, predicate_nodes, predicate_index) ==
  IF predicate_index >= Len(predicate_nodes) THEN plan
  ELSE ConnectPredicates(
         set_input(plan, predicate_nodes[predicate_index], "left",
                   predicate_nodes[predicate_index + 1]),
         predicate_nodes, predicate_index + 1)

RECURSIVE ConnectOutputs(_, _, _)
ConnectOutputs(plan, outputs, front) ==
  IF outputs = {} THEN plan
  ELSE LET o == CHOOSE x \in outputs : TRUE
       IN ConnectOutputs(set_input(plan, o[1], o[2], front),
                         outputs \ {o}, front)

replace_predicates(plan, predicates, iteration) ==
  LET input == plan[predicates[Len(predicates)]].left_input
      outputs == Outputs(plan, predicates[1])
      sorted == SortPredicates(predicates, ReplaceState(plan))
      composed == ComposeColumns(KeyOrder(iteration, sorted.inserted_keys), sorted)
      predicate_nodes == composed.predicate_nodes \o composed.between_nodes
      tied == set_input(composed.plan, predicate_nodes[Len(predicate_nodes)],
                        "left", input)
      chained == ConnectPredicates(tied, predicate_nodes, 1)
  IN IF predicate_nodes = <<>>
     THEN [plan |-> composed.plan, crashed |-> TRUE]
     ELSE [plan |-> ConnectOutputs(chained, outputs, predicate_nodes[1]),
           crashed |-> FALSE]

\* the build shows how its map orders the keys when the map of a call
\* holds more than one key; it orders them the same way from then on
ObservesIteration(plan, predicates) ==
  Len(SortPredicates(predicates, ReplaceState(plan)).inserted_keys) > 1

IterationsOf(plan, predicates) ==
  IF map_iteration # "unobserved" THEN {map_iteration}
  ELSE IF ObservesIteration(plan, predicates) THEN MapIterations
  ELSE {"insertion"}

(***************************************************************************)
(* apply_to: the run of predicate nodes that starts at a node.  The walk   *)
(* goes down the left inputs and stops at a node that is no predicate      *)
(* node, has more than one output or has a right input.                    *)
(***************************************************************************)
RECURSIVE GatherPredicates(_, _, _)
GatherPredicates(plan, current_node, predicate_nodes) ==
  IF plan[current_node].type # "Predicate" THEN predicate_nodes
  ELSE IF \/ Cardinality(Outputs(plan, current_node)) > 1
          \/ plan[current_node].right_input # NullNode
          \/ Len(predicate_nodes) >= Len(plan)
  THEN predicate_nodes
  ELSE IF plan[current_node].left_input = NullNode
  THEN Append(predicate_nodes, current_node)
  ELSE GatherPredicates(plan, plan[current_node].left_input,
                        Append(predicate_nodes, current_node))

PredicateRun(plan, node) ==
  IF plan[node].type = "Predicate" THEN GatherPredicates(plan, node, <<>>)
  ELSE <<>>

\* _apply_to_inputs(node): apply_to on the left input, then on the right
\* input, each read when its turn comes
Call(node, side) == [node |-> node, side |-> side]
apply_to_inputs(node) == <<Call(node, "left"), Call(node, "right")>>

(***************************************************************************)
(* The plans the rule is applied to: a root node over a run of predicate   *)
(* nodes over a stored table.  The root is node 1, the predicates follow   *)
(* in the order of the chain, the table is the last node.                  *)
(***************************************************************************)
BoundaryConditions ==
  {"LessThan", "LessThanEquals", "GreaterThan", "GreaterThanEquals"}

ColumnExpressions == {ColumnExpression(c) : c \in Columns}
ValueExpressions == {ValueExpression(v) : v \in RuleValues}

\* comparisons of a column with a value, and of a value with a column
ColumnValueComparisons(conditions) ==
  {BinaryPredicateExpression(cond, c, v) :
     cond \in conditions, c \in ColumnExpressions, v \in ValueExpressions}

ValueColumnComparisons(conditions) ==
  {BinaryPredicateExpression(cond, v, c) :
     cond \in conditions, c \in ColumnExpressions, v \in ValueExpressions}

\* the comparisons of the longer runs: column first
BoundaryAtoms == ColumnValueComparisons(BoundaryConditions)

BinaryAtoms ==
  ColumnValueComparisons(PredicateConditions)
  \cup ValueColumnComparisons(PredicateConditions)
  \cup {BinaryPredicateExpression(cond, ColumnExpression("a"), ColumnExpression("b")) :
          cond \in PredicateConditions}

OtherAtoms ==
  { LikeExpression(ColumnExpression("a"), 1),
    InExpression(ColumnExpression("b"), {1, MaxRuleValue}),
    LogicalExpression("Or",
      BinaryPredicateExpression("LessThan", ColumnExpression("a"), ValueExpression(1)),
      BinaryPredicateExpression("GreaterThan", ColumnExpression("b"), ValueExpression(1))),
    BetweenExpression("BetweenInclusive", ColumnExpression("a"),
                      ValueExpression(1), ValueExpression(MaxRuleValue)) }

Atoms == BinaryAtoms \cup OtherAtoms

\* the predicates made of exactly n atoms: an atom, or an AND of predicates
RECURSIVE PredicatesOf(_)
PredicatesOf(n) ==
  IF n = 1 THEN Atoms
  ELSE UNION {{LogicalExpression("And", l, r) :
                 l \in PredicatesOf(i), r \in PredicatesOf(n - i)} :
              i \in 1 .. (n - 1)}

\* the runs of predicates made of exactly n atoms
RECURSIVE RunsOf(_)
RunsOf(n) ==
  IF n = 0 THEN {<<>>}
  ELSE UNION {{<<p>> \o run : p \in PredicatesOf(k), run \in RunsOf(n - k)} :
              k \in 1 .. n}

PredicateRuns ==
  UNION {RunsOf(n) : n \in 0 .. MaxRuleAtoms}
  \cup SeqsUpTo(BoundaryAtoms, MaxBoundaryAtoms)

RootNode == 1

PlanOver(run) ==
  [i \in 1 .. (Len(run) + 2) |->
     IF i = RootNode THEN LQPNode("Root", NoExpression, 2)
     ELSE IF i = Len(run) + 2 THEN LQPNode("StoredTable", NoExpression, NullNode)
     ELSE LQPNode("Predicate", run[i - 1], i + 1)]

\* the predicates on the way from the root down the left inputs
RECURSIVE PredicatesBelow(_, _, _)
PredicatesBelow(plan, node, fuel) ==
  IF node = NullNode \/ fuel = 0 THEN <<>>
  ELSE IF plan[node].type # "Predicate" THEN <<>>
  ELSE <<plan[node].predicate>>
       \o PredicatesBelow(plan, plan[node].left_input, fuel - 1)

PlanPredicates(plan) ==
  PredicatesBelow(plan, plan[RootNode].left_input, Len(plan))

(***************************************************************************)
(* The rule as a state machine.  A step of apply_to takes the first        *)
(* pending call; the calls it makes on the inputs come before the calls    *)
(* that were pending already.                                              *)
(***************************************************************************)
InitRule ==
  /\ pc = "rule_ready"
  /\ \E run \in PredicateRuns : lqp = PlanOver(run)
  /\ input_lqp = lqp
  /\ pending = <<>>
  /\ passes = 0
  /\ map_iteration = "unobserved"
  /\ predicates_after_first_pass = <<>>
  /\ JoinIdle
  /\ ScanIdle
  /\ TableIdle
  /\ BloomIdle

CallTarget(call) ==
  IF call.side = "self" THEN call.node ELSE InputOf(lqp, call.node, call.side)

\* the optimizer calls apply_to on the root of the plan
ApplyRule ==
  /\ pc \in {"rule_ready", "rule_done"}
  /\ passes < MaxRulePasses
  /\ pending' = <<Call(RootNode, "self")>>
  /\ pc' = "rule_running"
  /\ UNCHANGED <<map_iteration, lqp, input_lqp, passes, predicates_after_first_pass>>
  /\ UNCHANGED notRuleVars

\* _apply_to_inputs on a node without that input
ApplyToNoInput ==
  /\ pc = "rule_running"
  /\ pending # <<>>
  /\ CallTarget(Head(pending)) = NullNode
  /\ pending' = Tail(pending)
  /\ UNCHANGED <<map_iteration, pc, lqp, input_lqp, passes, predicates_after_first_pass>>
  /\ UNCHANGED notRuleVars

\* apply_to on a node a run of predicates starts at
ApplyToPredicateRun ==
  /\ pc = "rule_running"
  /\ pending # <<>>
  /\ Len(pending) < MaxRuleStack
  /\ LET node == CallTarget(Head(pending))
     IN /\ node # NullNode
        /\ PredicateRun(lqp, node) # <<>>
        /\ LET predicate_nodes == PredicateRun(lqp, node)
           IN \E iteration \in IterationsOf(lqp, predicate_nodes) :
                LET replaced == replace_predicates(lqp, predicate_nodes, iteration)
                IN /\ ~replaced.crashed
                   /\ lqp' = replaced.plan
                   /\ map_iteration' =
                        IF ObservesIteration(lqp, predicate_nodes)
                        THEN iteration ELSE map_iteration
                   /\ pending' = apply_to_inputs(predicate_nodes[Len(predicate_nodes)])
                                 \o Tail(pending)
  /\ UNCHANGED <<pc, input_lqp, passes, predicates_after_first_pass>>
  /\ UNCHANGED notRuleVars

\* apply_to on a run that leaves no node to put back
ReplacePredicatesCrash ==
  /\ pc = "rule_running"
  /\ pending # <<>>
  /\ Len(pending) < MaxRuleStack
  /\ LET node == CallTarget(Head(pending))
     IN /\ node # NullNode
        /\ PredicateRun(lqp, node) # <<>>
        /\ LET predicate_nodes == PredicateRun(lqp, node)
           IN LET replaced == replace_predicates(lqp, predicate_nodes, "insertion")
              IN /\ replaced.crashed
                 /\ lqp' = replaced.plan
  /\ pc' = "rule_crashed"
  /\ UNCHANGED <<map_iteration, pending, input_lqp, passes, predicates_after_first_pass>>
  /\ UNCHANGED notRuleVars

\* apply_to on a node no run of predicates starts at
ApplyToOtherNode ==
  /\ pc = "rule_running"
  /\ pending # <<>>
  /\ Len(pending) < MaxRuleStack
  /\ LET node == CallTarget(Head(pending))
     IN /\ node # NullNode
        /\ PredicateRun(lqp, node) = <<>>
        /\ pending' = apply_to_inputs(node) \o Tail(pending)
  /\ UNCHANGED <<map_iteration, pc, lqp, input_lqp, passes, predicates_after_first_pass>>
  /\ UNCHANGED notRuleVars

\* the recursion of apply_to does not end: the stack overflows
ApplyToStackOverflow ==
  /\ pc = "rule_running"
  /\ Len(pending) >= MaxRuleStack
  /\ CallTarget(Head(pending)) # NullNode
  /\ pc' = "rule_crashed"
  /\ UNCHANGED <<map_iteration, lqp, input_lqp, pending, passes, predicates_after_first_pass>>
  /\ UNCHANGED notRuleVars

\* the call of apply_to on the root returns
ApplyRuleReturns ==
  /\ pc = "rule_running"
  /\ pending = <<>>
  /\ pc' = "rule_done"
  /\ passes' = passes + 1
  /\ predicates_after_first_pass' =
       IF passes = 0 THEN PlanPredicates(lqp) ELSE predicates_after_first_pass
  /\ UNCHANGED <<map_iteration, lqp, input_lqp, pending>>
  /\ UNCHANGED notRuleVars

NextRule ==
  \/ ApplyRule
  \/ ApplyToNoInput
  \/ ApplyToPredicateRun
  \/ ReplacePredicatesCrash
  \/ ApplyToOtherNode
  \/ ApplyToStackOverflow
  \/ ApplyRuleReturns

SpecRule == InitRule /\ [][NextRule]_vars

(***************************************************************************)
(* What a plan computes: the rows of the stored table that every predicate *)
(* on the way from the root holds for.  A row gives every column a cell;   *)
(* a comparison with a NULL cell does not hold.                            *)
(***************************************************************************)
RowCells == {NullCell} \cup {ValueCell(v) : v \in 0 .. (MaxRuleValue + 1)}
Rows == [Columns -> RowCells]

OperandCell(operand, row) ==
  IF operand.kind = "Column" THEN row[operand.column]
  ELSE ValueCell(operand.value)

RECURSIVE Evaluate(_, _)
Evaluate(expression, row) ==
  CASE expression.kind = "Binary" ->
         LET l == OperandCell(expression.left_operand, row)
             r == OperandCell(expression.right_operand, row)
         IN /\ ~l.is_null
            /\ ~r.is_null
            /\ with_comparator(expression.predicate_condition, l.value, r.value)
    [] expression.kind = "Between" ->
         LET v == OperandCell(expression.value, row)
         IN /\ ~v.is_null
            /\ with_comparator_between(expression.predicate_condition, v.value,
                 expression.lower_bound.value, expression.upper_bound.value)
    [] expression.kind = "Logical" ->
         IF expression.logical_operator = "And"
         THEN Evaluate(expression.left_operand, row)
              /\ Evaluate(expression.right_operand, row)
         ELSE Evaluate(expression.left_operand, row)
              \/ Evaluate(expression.right_operand, row)
    [] expression.kind = "Like" ->
         LET v == OperandCell(expression.value, row)
         IN ~v.is_null /\ v.value = expression.pattern
    [] expression.kind = "In" ->
         LET v == OperandCell(expression.value, row)
         IN ~v.is_null /\ v.value \in expression.set

Selects(predicates, row) ==
  \A i \in DOMAIN predicates : Evaluate(predicates[i], row)

FirstPassDone == pc = "rule_done" /\ passes = 1
SecondPassDone == pc = "rule_done" /\ passes = 2

\* C2: the plan the rule leaves selects the rows the plan it was given
\* selects: the conjunction of the predicates of the rewritten chain is
\* equivalent to the conjunction of the predicates of the original run.
C2_RewriteKeepsTheRows ==
  FirstPassDone =>
    \A row \in Rows :
      Selects(PlanPredicates(input_lqp), row) <=> Selects(PlanPredicates(lqp), row)

\* the same for the runs without an AND predicate
HasAnd(predicates) ==
  \E i \in DOMAIN predicates :
    predicates[i].kind = "Logical" /\ predicates[i].logical_operator = "And"

RewriteKeepsTheRowsWithoutAnd ==
  (FirstPassDone /\ ~HasAnd(PlanPredicates(input_lqp))) =>
    \A row \in Rows :
      Selects(PlanPredicates(input_lqp), row) <=> Selects(PlanPredicates(lqp), row)

\* C8: the rule is idempotent: a second application leaves the chain with
\* the same predicates in the same order as the first one.
C8_SecondPassChangesNothing ==
  SecondPassDone => PlanPredicates(lqp) = predicates_after_first_pass

\* how often an expression stands in a sequence
Occurrences(predicates, expression) ==
  Cardinality({i \in DOMAIN predicates : predicates[i] = expression})

\* the conjuncts of a run: its predicates with every AND taken apart
RECURSIVE Conjuncts(_)
Conjuncts(predicates) ==
  IF predicates = <<>> THEN <<>>
  ELSE (IF Head(predicates).kind = "Logical" /\ Head(predicates).logical_operator = "And"
          THEN flatten_logical_expressions(Head(predicates), "And")
          ELSE <<Head(predicates)>>)
       \o Conjuncts(Tail(predicates))

IsNonBoundary(expression) ==
  \/ expression.kind # "Binary"
  \/ get_boundary(expression).type = "None"

NonBoundaryConjuncts(predicates) ==
  {Conjuncts(predicates)[i] : i \in DOMAIN Conjuncts(predicates)} \ {e \in Atoms : ~IsNonBoundary(e)}

KeptExactlyOnce(expression) ==
  LET before == Occurrences(Conjuncts(PlanPredicates(input_lqp)), expression)
      after == Occurrences(Conjuncts(PlanPredicates(lqp)), expression)
  IN IF expression.kind = "Between" THEN after >= before ELSE after = before

\* C17: every predicate of the run that is no boundary, the operands of
\* AND predicates that are no boundaries included, is in the rewritten
\* chain exactly as often as it was in the run: none is dropped and none
\* is inserted more than once.
C17_NonBoundariesKeptExactlyOnce ==
  FirstPassDone =>
    \A e \in NonBoundaryConjuncts(PlanPredicates(input_lqp)) : KeptExactlyOnce(e)

\* the same for the runs without an AND predicate
NonBoundariesKeptWithoutAnd ==
  (FirstPassDone /\ ~HasAnd(PlanPredicates(input_lqp))) =>
    \A e \in NonBoundaryConjuncts(PlanPredicates(input_lqp)) : KeptExactlyOnce(e)

\* the nodes on the way from a node down the left inputs, as long as they
\* are predicates, and the node the way ends at
RECURSIVE ChainFrom(_, _, _)
ChainFrom(plan, node, fuel) ==
  IF node = NullNode \/ fuel = 0 THEN <<>>
  ELSE IF plan[node].type # "Predicate" THEN <<>>
  ELSE <<node>> \o ChainFrom(plan, plan[node].left_input, fuel - 1)

Chain(plan) == ChainFrom(plan, plan[RootNode].left_input, Len(plan) + 1)

ChainEnd(plan) ==
  IF Chain(plan) = <<>> THEN plan[RootNode].left_input
  ELSE plan[Chain(plan)[Len(Chain(plan))]].left_input

OriginalPredicateNodes == {n \in DOMAIN input_lqp : input_lqp[n].type = "Predicate"}
OriginalInput == ChainEnd(input_lqp)

DuringOrAfterFirstPass == passes = 0 \/ FirstPassDone

\* C18: the chain the rule builds for a run is not empty and is a path
\* without a cycle, no node standing in it twice; the left input of its
\* last node is the input the run had, its first node is the input, on the
\* same side, of the node that consumed the run, and the nodes of the run
\* that are not used again have no input and no output.
C18_ChainIsAPathOverTheInput ==
  DuringOrAfterFirstPass =>
    /\ pc # "rule_crashed"
    /\ Len(Chain(lqp)) <= Len(lqp)
    /\ \A i, k \in DOMAIN Chain(lqp) : Chain(lqp)[i] = Chain(lqp)[k] => i = k
    /\ OriginalPredicateNodes # {} => Chain(lqp) # <<>>
    /\ ChainEnd(lqp) = OriginalInput
    /\ Chain(lqp) # <<>> => Outputs(lqp, Chain(lqp)[1]) = {<<RootNode, "left">>}
    /\ \A n \in OriginalPredicateNodes :
         (\A i \in DOMAIN Chain(lqp) : Chain(lqp)[i] # n) =>
           /\ lqp[n].left_input = NullNode
           /\ Outputs(lqp, n) = {}

\* a node of the plan is its own left input
NodeIsItsOwnInput == \E n \in DOMAIN lqp : lqp[n].left_input = n

ChainHasNoCycle == ~NodeIsItsOwnInput

\* the rewrite finds no node to build a chain of
ReplacedByNothing == pc = "rule_crashed" /\ Len(pending) < MaxRuleStack

SomeNodeIsReplaced == ~ReplacedByNothing

\* the same for the runs without an AND predicate
ChainIsAPathWithoutAnd ==
  (DuringOrAfterFirstPass /\ ~HasAnd(PlanPredicates(input_lqp))) =>
    C18_ChainIsAPathOverTheInput

(***************************************************************************)
(* Plans with a second run of predicates below the first one: a root over  *)
(* a run of predicates over a projection over the run a >= 1, a <= 2 over  *)
(* a stored table.                                                         *)
(***************************************************************************)
UpperRuns == UNION {RunsOf(n) : n \in 0 .. MaxRuleAtoms}

LowerRun ==
  << BinaryPredicateExpression("GreaterThanEquals", ColumnExpression("a"), ValueExpression(1)),
     BinaryPredicateExpression("LessThanEquals", ColumnExpression("a"),
                               ValueExpression(MaxRuleValue)) >>

PlanOverPlan(upper, lower) ==
  [i \in 1 .. (Len(upper) + Len(lower) + 3) |->
     IF i = RootNode THEN LQPNode("Root", NoExpression, 2)
     ELSE IF i <= Len(upper) + 1 THEN LQPNode("Predicate", upper[i - 1], i + 1)
     ELSE IF i = Len(upper) + 2 THEN LQPNode("Projection", NoExpression, i + 1)
     ELSE IF i = Len(upper) + Len(lower) + 3 THEN LQPNode("StoredTable", NoExpression, NullNode)
     ELSE LQPNode("Predicate", lower[i - Len(upper) - 2], i + 1)]

InitRuleBelow ==
  /\ pc = "rule_ready"
  /\ \E run \in UpperRuns : lqp = PlanOverPlan(run, LowerRun)
  /\ input_lqp = lqp
  /\ pending = <<>>
  /\ passes = 0
  /\ map_iteration = "unobserved"
  /\ predicates_after_first_pass = <<>>
  /\ JoinIdle
  /\ ScanIdle
  /\ TableIdle
  /\ BloomIdle

SpecRuleBelow == InitRuleBelow /\ [][NextRule]_vars

ProjectionNode == CHOOSE n \in DOMAIN input_lqp : input_lqp[n].type = "Projection"

\* the predicates of the run below the projection
LowerPredicates(plan) ==
  LET chain == ChainFrom(plan, plan[ProjectionNode].left_input, Len(plan) + 1)
  IN [i \in DOMAIN chain |-> plan[chain[i]].predicate]

\* the nodes on the way from a node down the left inputs
RECURSIVE PathFrom(_, _, _)
PathFrom(plan, node, fuel) ==
  IF node = NullNode \/ fuel = 0 THEN {}
  ELSE {node} \cup PathFrom(plan, plan[node].left_input, fuel - 1)

CreatedNodes == {n \in DOMAIN lqp : n > Len(input_lqp)}

LowerRunIsRewritten ==
  LowerPredicates(lqp) =
    <<BetweenExpression("BetweenInclusive", ColumnExpression("a"),
                        ValueExpression(1), ValueExpression(MaxRuleValue))>>

NoCreatedNodeIsReplaced ==
  CreatedNodes \subseteq PathFrom(lqp, RootNode, Len(lqp) + 1)

\* C19: after a run is rewritten the rule is applied to the plan below it:
\* the run below the projection is rewritten as well, whether the last
\* predicate of the upper run was replaced or used again; and no predicate
\* of a chain the rule has built is rewritten a second time in the pass:
\* every node the rule has made is still in the plan.
C19_PlanBelowIsRewrittenOnce ==
  FirstPassDone => (LowerRunIsRewritten /\ NoCreatedNodeIsReplaced)

LowerRunRewritten == FirstPassDone => LowerRunIsRewritten

CreatedNodesStay == FirstPassDone => NoCreatedNodeIsReplaced

\* the pass ends with the lower run rewritten and every made node in place
PlanBelowRewrittenOnce == FirstPassDone /\ LowerRunIsRewritten /\ NoCreatedNodeIsReplaced

(***************************************************************************)
(* The boundaries of a run, read off the plan the rule was given.          *)
(***************************************************************************)
RECURSIVE BoundariesOfRun(_)
BoundariesOfRun(predicates) ==
  IF predicates = <<>> THEN {}
  ELSE LET expressions == BinaryExpressionsOf(Head(predicates))
       IN {b \in {get_boundary(expressions[i]) : i \in DOMAIN expressions} :
             b.type # "None"}
          \cup BoundariesOfRun(Tail(predicates))

LowerTypes == {"LowerBoundaryInclusive", "LowerBoundaryExclusive"}
UpperTypes == {"UpperBoundaryInclusive", "UpperBoundaryExclusive"}
ExclusiveTypes == {"LowerBoundaryExclusive", "UpperBoundaryExclusive"}

BoundariesOn(column, types) ==
  {b \in BoundariesOfRun(PlanPredicates(input_lqp)) :
     b.column_expression.column = column /\ b.type \in types}

LargestValue(boundaries) ==
  CHOOSE v \in {b.value_expression.value : b \in boundaries} :
    \A b \in boundaries : b.value_expression.value <= v

SmallestValue(boundaries) ==
  CHOOSE v \in {b.value_expression.value : b \in boundaries} :
    \A b \in boundaries : b.value_expression.value >= v

IsExclusiveAt(boundaries, v) ==
  \E b \in boundaries : b.value_expression.value = v /\ b.type \in ExclusiveTypes

MatchingBetweenCondition(lower_exclusive, upper_exclusive) ==
  CASE ~lower_exclusive /\ ~upper_exclusive -> "BetweenInclusive"
    [] lower_exclusive /\ ~upper_exclusive -> "BetweenLowerExclusive"
    [] ~lower_exclusive /\ upper_exclusive -> "BetweenUpperExclusive"
    [] lower_exclusive /\ upper_exclusive -> "BetweenExclusive"

ExpectedBetween(column) ==
  LET lowers == BoundariesOn(column, LowerTypes)
      uppers == BoundariesOn(column, UpperTypes)
      lo == LargestValue(lowers)
      hi == SmallestValue(uppers)
  IN BetweenExpression(
       MatchingBetweenCondition(IsExclusiveAt(lowers, lo), IsExclusiveAt(uppers, hi)),
       ColumnExpression(column), ValueExpression(lo), ValueExpression(hi))

HasBothBoundaries(column) ==
  BoundariesOn(column, LowerTypes) # {} /\ BoundariesOn(column, UpperTypes) # {}

BetweensOn(predicates, column) ==
  {i \in DOMAIN predicates :
     predicates[i].kind = "Between" /\ predicates[i].value.column = column}

\* C9: for every column with a lower and an upper boundary in the run, the
\* rule adds exactly one between predicate on the column: its lower value
\* is the largest lower boundary, its upper value the smallest upper one,
\* a side is exclusive iff a boundary with that value is exclusive, and its
\* condition is the between variant of that pair, in whatever order the
\* boundaries stand in the run.
C9_BetweenUsesTightestBounds ==
  FirstPassDone =>
    \A column \in Columns :
      HasBothBoundaries(column) =>
        LET before == PlanPredicates(input_lqp)
            after == PlanPredicates(lqp)
        IN /\ Cardinality(BetweensOn(after, column))
                = Cardinality(BetweensOn(before, column)) + 1
           /\ Occurrences(after, ExpectedBetween(column))
                = Occurrences(before, ExpectedBetween(column)) + 1

\* a run where an inclusive and an exclusive lower boundary tie on the
\* largest value, the exclusive one coming last, has been rewritten
C9_Witness ==
  /\ FirstPassDone
  /\ \E column \in Columns :
       /\ HasBothBoundaries(column)
       /\ LET before == PlanPredicates(input_lqp)
              lo == ValueExpression(LargestValue(BoundariesOn(column, LowerTypes)))
              c == ColumnExpression(column)
          IN /\ \E i, j \in DOMAIN before :
                  /\ i < j
                  /\ before[i] = BinaryPredicateExpression("GreaterThanEquals", c, lo)
                  /\ before[j] = BinaryPredicateExpression("GreaterThan", c, lo)
             /\ ExpectedBetween(column).predicate_condition
                  \in {"BetweenLowerExclusive", "BetweenExclusive"}
             /\ Occurrences(PlanPredicates(lqp), ExpectedBetween(column)) = 1

(***************************************************************************)
(* Table (storage/table.cpp).  A chunk is represented by its number of     *)
(* rows, by the call that made it and by whether its columns take further  *)
(* rows (value columns do, dictionary and reference columns do not).  The  *)
(* values of the rows play no part in the chunking and are left out.       *)
(***************************************************************************)
Chunk(size, made_by, takes_rows) ==
  [size |-> size, made_by |-> made_by, takes_rows |-> takes_rows]

\* append_chunk: the chunk goes to the end of _chunks whatever its size
append_chunk(chunks, chunk) == Append(chunks, chunk)

\* append_mutable_chunk: an empty chunk of value columns
append_mutable_chunk(chunks) ==
  append_chunk(chunks, Chunk(0, "append_mutable_chunk", TRUE))

\* the test of Table::append for opening a chunk
needs_new_chunk_when_over_full(chunks, max_chunk_size) ==
  chunks = <<>> \/ chunks[Len(chunks)].size > max_chunk_size

needs_new_chunk(chunks, max_chunk_size) ==
  chunks = <<>> \/ chunks[Len(chunks)].size >= max_chunk_size

\* Table::append opening a chunk only for a table without chunks
ChunksForAppendWithoutTest(chunks, max_chunk_size) ==
  IF chunks = <<>> THEN append_mutable_chunk(chunks) ELSE chunks

\* Table::append up to the call of Chunk::append
ChunksForAppend(chunks, max_chunk_size) ==
  IF needs_new_chunk(chunks, max_chunk_size) THEN append_mutable_chunk(chunks)
  ELSE chunks

\* Chunk::append on the last chunk
chunk_append(chunks) == [chunks EXCEPT ![Len(chunks)].size = @ + 1]

\* Table::row_count: the loop over _chunks; the sum is a 64-bit word and
\* the sizes are 32-bit words, so no table of the model overflows it
RECURSIVE RowCountLoop(_, _, _)
RowCountLoop(chunks, chunk_id, ret) ==
  IF chunk_id > Len(chunks) THEN ret
  ELSE RowCountLoop(chunks, chunk_id + 1, ret + chunks[chunk_id].size)

row_count(chunks) == RowCountLoop(chunks, 1, 0)

(***************************************************************************)
(* The table as a state machine: a client calls append and append_chunk    *)
(* in any order.                                                           *)
(***************************************************************************)
InitTable ==
  /\ pc = "table_constructed"
  /\ table_max_chunk_size \in 1 .. MaxTableChunkSize
  /\ table_chunks = <<>>
  /\ last_call = "none"
  /\ appenders = <<>>
  /\ append_mutex = 0
  /\ chunks_before = <<>>
  /\ table_type = "Data"
  /\ is_debug = FALSE
  /\ JoinIdle
  /\ ScanIdle
  /\ RuleIdle
  /\ BloomIdle

\* Table::append(values) on a table whose last chunk takes the row
TableAppend ==
  /\ pc = "table_constructed"
  /\ LET chunks == ChunksForAppend(table_chunks, table_max_chunk_size)
     IN /\ Len(chunks) <= MaxTableChunks
        /\ chunks[Len(chunks)].takes_rows
        /\ table_chunks' = chunk_append(chunks)
  /\ last_call' = "append"
  /\ UNCHANGED <<pc, table_max_chunk_size, tableThreadVars, tableTypeVars>>
  /\ UNCHANGED notTableVars

\* Table::append(values) on a table whose last chunk has room but columns
\* that take no rows: the append of the column fails
TableAppendFails ==
  /\ pc = "table_constructed"
  /\ LET chunks == ChunksForAppend(table_chunks, table_max_chunk_size)
     IN /\ Len(chunks) <= MaxTableChunks
        /\ ~chunks[Len(chunks)].takes_rows
        /\ table_chunks' = chunks
  /\ last_call' = "append failed"
  /\ UNCHANGED <<pc, table_max_chunk_size, tableThreadVars, tableTypeVars>>
  /\ UNCHANGED notTableVars

\* Table::append_chunk(columns) with columns of any length and kind
TableAppendChunk ==
  /\ pc = "table_constructed"
  /\ Len(table_chunks) < MaxTableChunks
  /\ \E size \in 0 .. MaxAppendedRows, takes_rows \in BOOLEAN :
       table_chunks' = append_chunk(table_chunks,
                                    Chunk(size, "append_chunk", takes_rows))
  /\ last_call' = "append_chunk"
  /\ UNCHANGED <<pc, table_max_chunk_size, tableThreadVars, tableTypeVars>>
  /\ UNCHANGED notTableVars

NextTable ==
  \/ TableAppend
  \/ TableAppendFails
  \/ TableAppendChunk

SpecTable == InitTable /\ [][NextTable]_vars

(***************************************************************************)
(* The chunking of the table.                                              *)
(***************************************************************************)
RECURSIVE SumOfChunkSizes(_)
SumOfChunkSizes(chunks) ==
  IF chunks = <<>> THEN 0
  ELSE chunks[Len(chunks)].size + SumOfChunkSizes(SubSeq(chunks, 1, Len(chunks) - 1))

AllButLastChunkFull ==
  \A i \in 1 .. (Len(table_chunks) - 1) :
    table_chunks[i].size = table_max_chunk_size

OnlyAppendCalled ==
  \A i \in DOMAIN table_chunks : table_chunks[i].made_by = "append_mutable_chunk"

\* C10 as stated: after any calls of append and append_chunk, row_count()
\* is the sum of the chunk sizes and every chunk but the last has exactly
\* max_chunk_size rows.
C10_EveryChunkButLastFull ==
  /\ row_count(table_chunks) = SumOfChunkSizes(table_chunks)
  /\ AllButLastChunkFull

\* C10 as the code has it: row_count() is the sum of the chunk sizes; a
\* chunk followed by a chunk that append opened has at least max_chunk_size
\* rows, and exactly max_chunk_size rows if append opened it as well; so as
\* long as append_chunk has not been called, every chunk but the last has
\* exactly max_chunk_size rows.
C10_ChunksOfAppendFull ==
  /\ row_count(table_chunks) = SumOfChunkSizes(table_chunks)
  /\ \A i \in 1 .. (Len(table_chunks) - 1) :
       table_chunks[i + 1].made_by = "append_mutable_chunk" =>
         /\ table_chunks[i].size >= table_max_chunk_size
         /\ table_chunks[i].made_by = "append_mutable_chunk" =>
              table_chunks[i].size = table_max_chunk_size
  /\ OnlyAppendCalled => AllButLastChunkFull

\* append has filled two chunks of more than one row and opened a third
C10_Witness ==
  /\ OnlyAppendCalled
  /\ Len(table_chunks) >= 3
  /\ table_max_chunk_size > 1
  /\ table_chunks[Len(table_chunks)].size >= 1
  /\ last_call = "append"

\* append has opened a chunk after a chunk of append_chunk
C10_WitnessAfterAppendChunk ==
  /\ \E i \in 1 .. (Len(table_chunks) - 1) :
       /\ table_chunks[i].made_by = "append_chunk"
       /\ table_chunks[i + 1].made_by = "append_mutable_chunk"
       /\ table_chunks[i + 1].size >= 1

\* the table after one more append(row), as the claim has it: a chunk is
\* opened exactly when there is none or the last one is full
AfterOneAppend(chunks, max_chunk_size) ==
  IF chunks = <<>> \/ chunks[Len(chunks)].size = max_chunk_size
    THEN Append(chunks, Chunk(1, "append_mutable_chunk", TRUE))
    ELSE [chunks EXCEPT ![Len(chunks)].size = @ + 1]

ChunkCountOfAppends(n, max_chunk_size) == (n + max_chunk_size - 1) \div max_chunk_size

AppendedChunksInTurn ==
  OnlyAppendCalled =>
    /\ Len(table_chunks) =
         ChunkCountOfAppends(SumOfChunkSizes(table_chunks), table_max_chunk_size)
    /\ AllButLastChunkFull
    /\ \A i \in DOMAIN table_chunks : table_chunks[i].size <= table_max_chunk_size

AppendStep ==
  (OnlyAppendCalled /\ last_call' = "append") =>
    /\ table_chunks' = AfterOneAppend(table_chunks, table_max_chunk_size)
    /\ SumOfChunkSizes(table_chunks') = SumOfChunkSizes(table_chunks) + 1
    /\ Len(table_chunks') >= Len(table_chunks)
    /\ \A i \in 1 .. (Len(table_chunks) - 1) : table_chunks'[i] = table_chunks[i]

\* C22: on a table that started without chunks and saw only append(row), a
\* chunk is opened exactly when there is no chunk or the last chunk holds
\* max_chunk_size rows: after n appends there are ceil(n / max_chunk_size)
\* chunks, every chunk but the last holds exactly max_chunk_size rows, no
\* chunk holds more, and an append leaves the chunks before the last as
\* they are and where they are.
C22_AppendOpensChunkWhenFull == []AppendedChunksInTurn /\ [][AppendStep]_vars

\* append has filled the second chunk of a table of chunks of two or more
\* rows and has not opened a third
C22_Witness ==
  /\ OnlyAppendCalled
  /\ last_call = "append"
  /\ table_max_chunk_size >= 2
  /\ Len(table_chunks) = 2
  /\ table_chunks[2].size = table_max_chunk_size

(***************************************************************************)
(* Two threads in Table::append at the same time.  Table::append and       *)
(* Table::append_chunk take no lock themselves; acquire_append_mutex hands *)
(* the lock to a caller who asks for it.  A thread is at one of the        *)
(* statements of Table::append: the test of the last chunk, the call of    *)
(* append_mutable_chunk, the call of Chunk::append on _chunks.back().      *)
(* Threads interleave between these statements; each statement is taken    *)
(* to be atomic.                                                           *)
(***************************************************************************)
AppenderThreads == {1, 2}
NoThread == 0

Appender(at, locks) == [at |-> at, locks |-> locks]

\* the table after n calls of append in a row on an empty table
RECURSIVE AppendedInTurn(_, _)
AppendedInTurn(n, max_chunk_size) ==
  IF n = 0 THEN <<>>
  ELSE chunk_append(ChunksForAppend(AppendedInTurn(n - 1, max_chunk_size),
                                    max_chunk_size))

InitTableThreads ==
  /\ pc = "table_appending"
  /\ table_max_chunk_size \in 1 .. MaxTableChunkSize
  /\ \E n \in 0 .. MaxRowsBefore :
       table_chunks = AppendedInTurn(n, table_max_chunk_size)
  /\ chunks_before = table_chunks
  /\ last_call = "none"
  /\ appenders \in [AppenderThreads ->
                      {Appender(IF locks THEN "acquire" ELSE "test", locks) :
                         locks \in BOOLEAN}]
  /\ append_mutex = NoThread
  /\ table_type = "Data"
  /\ is_debug = FALSE
  /\ JoinIdle
  /\ ScanIdle
  /\ RuleIdle
  /\ BloomIdle

\* acquire_append_mutex by a caller that locks around its append
AcquireAppendMutex(t) ==
  /\ appenders[t].at = "acquire"
  /\ append_mutex = NoThread
  /\ append_mutex' = t
  /\ appenders' = [appenders EXCEPT ![t].at = "test"]
  /\ UNCHANGED <<pc, table_max_chunk_size, table_chunks, last_call, chunks_before,
                 tableTypeVars>>
  /\ UNCHANGED notTableVars

\* Table::append: the test of the last chunk
AppendTestsLastChunk(t) ==
  /\ appenders[t].at = "test"
  /\ appenders' = [appenders EXCEPT ![t].at =
                     IF needs_new_chunk(table_chunks, table_max_chunk_size)
                     THEN "append_mutable_chunk" ELSE "chunk_append"]
  /\ UNCHANGED <<pc, table_max_chunk_size, table_chunks, last_call, chunks_before,
                 append_mutex, tableTypeVars>>
  /\ UNCHANGED notTableVars

\* Table::append: append_mutable_chunk()
AppendOpensChunk(t) ==
  /\ appenders[t].at = "append_mutable_chunk"
  /\ table_chunks' = append_mutable_chunk(table_chunks)
  /\ appenders' = [appenders EXCEPT ![t].at = "chunk_append"]
  /\ UNCHANGED <<pc, table_max_chunk_size, last_call, chunks_before,
                 append_mutex, tableTypeVars>>
  /\ UNCHANGED notTableVars

\* Table::append: _chunks.back()->append(values)
AppendAddsRow(t) ==
  /\ appenders[t].at = "chunk_append"
  /\ table_chunks' = chunk_append(table_chunks)
  /\ appenders' = [appenders EXCEPT ![t].at =
                     IF appenders[t].locks THEN "release" ELSE "done"]
  /\ last_call' = "append"
  /\ UNCHANGED <<pc, table_max_chunk_size, chunks_before, append_mutex,
                 tableTypeVars>>
  /\ UNCHANGED notTableVars

\* the lock of acquire_append_mutex goes out of scope
ReleaseAppendMutex(t) ==
  /\ appenders[t].at = "release"
  /\ append_mutex = t
  /\ append_mutex' = NoThread
  /\ appenders' = [appenders EXCEPT ![t].at = "done"]
  /\ UNCHANGED <<pc, table_max_chunk_size, table_chunks, last_call, chunks_before,
                 tableTypeVars>>
  /\ UNCHANGED notTableVars

NextTableThreads ==
  \E t \in AppenderThreads :
    \/ AcquireAppendMutex(t)
    \/ AppendTestsLastChunk(t)
    \/ AppendOpensChunk(t)
    \/ AppendAddsRow(t)
    \/ ReleaseAppendMutex(t)

SpecTableThreads == InitTableThreads /\ [][NextTableThreads]_vars

AppendersDone ==
  pc = "table_appending" /\ \A t \in AppenderThreads : appenders[t].at = "done"

NoChunkOverFull ==
  \A i \in DOMAIN table_chunks : table_chunks[i].size <= table_max_chunk_size

\* the table two calls of append in a row leave
AppendedTwiceInTurn ==
  chunk_append(ChunksForAppend(
    chunk_append(ChunksForAppend(chunks_before, table_max_chunk_size)),
    table_max_chunk_size))

\* C11: two concurrent calls of append are serialized: no chunk ever holds
\* more than max_chunk_size rows, and when both calls are over both rows
\* are stored in the chunks that the two calls in a row would have left.
C11_ConcurrentAppendsSerialized ==
  /\ pc = "table_appending" => NoChunkOverFull
  /\ AppendersDone =>
       /\ row_count(table_chunks) = row_count(chunks_before) + 2
       /\ table_chunks = AppendedTwiceInTurn

\* the same for two callers that both hold the lock of acquire_append_mutex
\* around their call
BothLock ==
  pc = "table_appending" /\ \A t \in AppenderThreads : appenders[t].locks

LockedAppendsSerialized ==
  BothLock =>
    /\ NoChunkOverFull
    /\ AppendersDone =>
         /\ row_count(table_chunks) = row_count(chunks_before) + 2
         /\ table_chunks = AppendedTwiceInTurn

(***************************************************************************)
(* The kinds of columns in the chunks of a table.  A chunk handed to       *)
(* append_chunk has columns of any kind; the chunk of append_mutable_chunk *)
(* has value columns.  The checks of append_chunk stand between #if        *)
(* IS_DEBUG and #endif: a build without IS_DEBUG has none of them.         *)
(***************************************************************************)
TableTypes == {"Data", "References"}
ColumnKinds == {"Value", "Dictionary", "Reference"}

ChunkColumnsOfKinds == UNION {[1 .. n -> ColumnKinds] : n \in 1 .. MaxTableColumns}

TypedChunk(size, made_by, columns) ==
  [size |-> size, made_by |-> made_by,
   takes_rows |-> \A i \in DOMAIN columns : columns[i] = "Value",
   columns |-> columns]

\* the kinds of the columns of a chunk of the table
ColumnsOf(chunk) ==
  IF chunk.made_by = "append_mutable_chunk" THEN <<"Value">> ELSE chunk.columns

\* the DebugAssert on one column of append_chunk
column_kind_asserted(type, kind) ==
  IF type = "References" THEN kind = "Reference" ELSE kind # "Reference"

\* the loop of DebugAsserts of append_chunk, as the build has it
append_chunk_asserts_hold(type, debug, columns) ==
  debug => \A i \in DOMAIN columns : column_kind_asserted(type, columns[i])

InitTableTypes ==
  /\ pc = "table_typed"
  /\ table_max_chunk_size \in 1 .. MaxTableChunkSize
  /\ table_type \in TableTypes
  /\ is_debug \in BOOLEAN
  /\ table_chunks = <<>>
  /\ last_call = "none"
  /\ appenders = <<>>
  /\ append_mutex = 0
  /\ chunks_before = <<>>
  /\ JoinIdle
  /\ ScanIdle
  /\ RuleIdle
  /\ BloomIdle

\* Table::append_chunk(columns) that passes the asserts the build has
TypedAppendChunk ==
  /\ pc = "table_typed"
  /\ Len(table_chunks) < MaxTypedChunks
  /\ \E size \in 0 .. MaxTypedRows, columns \in ChunkColumnsOfKinds :
       /\ append_chunk_asserts_hold(table_type, is_debug, columns)
       /\ table_chunks' = append_chunk(table_chunks,
                                       TypedChunk(size, "append_chunk", columns))
  /\ last_call' = "append_chunk"
  /\ UNCHANGED <<pc, table_max_chunk_size, tableThreadVars, tableTypeVars>>
  /\ UNCHANGED notTableVars

\* Table::append_chunk(columns) stopped by a DebugAssert
TypedAppendChunkFails ==
  /\ pc = "table_typed"
  /\ \E columns \in ChunkColumnsOfKinds :
       ~append_chunk_asserts_hold(table_type, is_debug, columns)
  /\ last_call' = "append_chunk failed"
  /\ UNCHANGED <<pc, table_max_chunk_size, table_chunks, tableThreadVars,
                 tableTypeVars>>
  /\ UNCHANGED notTableVars

\* Table::append(values): a chunk of value columns is opened where needed,
\* through append_chunk and its asserts, and the row goes to the last chunk
TypedAppend ==
  /\ pc = "table_typed"
  /\ needs_new_chunk(table_chunks, table_max_chunk_size) =>
       /\ Len(table_chunks) < MaxTypedChunks
       /\ append_chunk_asserts_hold(table_type, is_debug, <<"Value">>)
  /\ LET chunks == ChunksForAppend(table_chunks, table_max_chunk_size)
     IN /\ chunks[Len(chunks)].takes_rows
        /\ table_chunks' = chunk_append(chunks)
  /\ last_call' = "append"
  /\ UNCHANGED <<pc, table_max_chunk_size, tableThreadVars, tableTypeVars>>
  /\ UNCHANGED notTableVars

\* Table::append(values) stopped by a DebugAssert of append_chunk or by a
\* column of the last chunk that takes no rows
TypedAppendFails ==
  /\ pc = "table_typed"
  /\ IF needs_new_chunk(table_chunks, table_max_chunk_size)
     THEN ~append_chunk_asserts_hold(table_type, is_debug, <<"Value">>)
     ELSE ~table_chunks[Len(table_chunks)].takes_rows
  /\ last_call' = "append failed"
  /\ UNCHANGED <<pc, table_max_chunk_size, table_chunks, tableThreadVars,
                 tableTypeVars>>
  /\ UNCHANGED notTableVars

NextTableTypes ==
  \/ TypedAppendChunk
  \/ TypedAppendChunkFails
  \/ TypedAppend
  \/ TypedAppendFails

SpecTableTypes == InitTableTypes /\ [][NextTableTypes]_vars

ColumnsFitTableType ==
  \A i \in DOMAIN table_chunks :
    LET columns == ColumnsOf(table_chunks[i])
    IN \A j \in DOMAIN columns :
         IF table_type = "References" THEN columns[j] = "Reference"
         ELSE columns[j] # "Reference"

\* C12: in every state of a table, a Data table holds no reference segment
\* and a References table holds only reference segments (the calls that
\* would break this are rejected).
C12_ColumnsFitTableType == pc = "table_typed" => ColumnsFitTableType

\* the same in a build with IS_DEBUG
DebugBuildKeepsTableType ==
  (pc = "table_typed" /\ is_debug) => ColumnsFitTableType

(***************************************************************************)
(* Table::apply_and_check_bloom_filter on a Data table of full chunks of   *)
(* value or dictionary columns.  _max_chunk_size is a uint32_t and         *)
(* chunk_id a ChunkID, a 32-bit word as well, so their product is a 32-bit *)
(* product; prev_rows and row_number are size_t, 64-bit words.  The loop   *)
(* over the chunks is entered at any chunk, and within a chunk any row is  *)
(* the next one to be hashed.                                              *)
(***************************************************************************)
Word32Of(n) == ToLimbs(n, 4)

\* 2^16
TwoTo16 == <<0, 0, 1, 0>>

\* 2^32 - 1
Word32Max == <<255, 255, 255, 255>>

ChunkSizes == {Word32Of(1), Word32Of(2), Word32Of(3), Word32Of(65535), TwoTo16,
               Word32Of(65537), Word32Max}

ChunkCounts == {Word32Of(0), Word32Of(1), Word32Of(3), TwoTo16, Word32Of(65537), Word32Max}

ChunkIds == {Word32Of(0), Word32Of(1), Word32Of(2), Word32Of(65535), TwoTo16}

ChunkOffsets == {Word32Of(0), Word32Of(1), Word32Of(2), Word32Of(65535)}

\* size_t prev_rows = _max_chunk_size * chunk_id
prev_rows_of(max_chunk_size, chunk_id) ==
  ZeroExtend(TimesLimbs(max_chunk_size, chunk_id, 4), 8)

\* size_t row_number = prev_rows + chunk_offset
row_number_of(rows_before, chunk_offset) ==
  PlusLimbs(rows_before, ZeroExtend(chunk_offset, 8), 8)

InitBloomFilter ==
  /\ pc = "bloom_loop"
  /\ bloom_max_chunk_size \in ChunkSizes
  /\ bloom_chunk_count \in ChunkCounts
  /\ bloom_chunk_id \in {c \in ChunkIds : ~LessLimbs(bloom_chunk_count, c)}
  /\ bloom_chunk_offset = Word32Of(0)
  /\ prev_rows = ToLimbs(0, 8)
  /\ row_number = ToLimbs(0, 8)
  /\ bloom_chunks_visited = 0
  /\ JoinIdle
  /\ ScanIdle
  /\ RuleIdle
  /\ TableIdle

\* the loop over _chunks enters the next chunk
BloomEnterChunk ==
  /\ pc = "bloom_loop"
  /\ LessLimbs(bloom_chunk_id, bloom_chunk_count)
  /\ prev_rows' = prev_rows_of(bloom_max_chunk_size, bloom_chunk_id)
  /\ pc' = "bloom_chunk"
  /\ UNCHANGED <<bloom_max_chunk_size, bloom_chunk_count, bloom_chunk_id, bloom_chunk_offset,
                 row_number, bloom_chunks_visited>>
  /\ UNCHANGED notBloomVars

\* the loop over the rows of a column of the chunk hashes a row
BloomHashRow ==
  /\ pc \in {"bloom_chunk", "bloom_row"}
  /\ \E chunk_offset \in ChunkOffsets :
       /\ LessLimbs(chunk_offset, bloom_max_chunk_size)
       /\ bloom_chunk_offset' = chunk_offset
       /\ row_number' = row_number_of(prev_rows, chunk_offset)
  /\ pc' = "bloom_row"
  /\ UNCHANGED <<bloom_max_chunk_size, bloom_chunk_count, bloom_chunk_id, prev_rows,
                 bloom_chunks_visited>>
  /\ UNCHANGED notBloomVars

\* ++chunk_id
BloomNextChunk ==
  /\ pc \in {"bloom_chunk", "bloom_row"}
  /\ bloom_chunks_visited < MaxBloomChunks
  /\ bloom_chunk_id' = PlusLimbs(bloom_chunk_id, Word32Of(1), 4)
  /\ bloom_chunks_visited' = bloom_chunks_visited + 1
  /\ pc' = "bloom_loop"
  /\ UNCHANGED <<bloom_max_chunk_size, bloom_chunk_count, bloom_chunk_offset, prev_rows,
                 row_number>>
  /\ UNCHANGED notBloomVars

\* the loop is over: return false
BloomReturns ==
  /\ pc = "bloom_loop"
  /\ ~LessLimbs(bloom_chunk_id, bloom_chunk_count)
  /\ pc' = "bloom_done"
  /\ UNCHANGED bloomVars
  /\ UNCHANGED notBloomVars

NextBloomFilter ==
  \/ BloomEnterChunk
  \/ BloomHashRow
  \/ BloomNextChunk
  \/ BloomReturns

SpecBloomFilter == InitBloomFilter /\ [][NextBloomFilter]_vars

InChunk == pc \in {"bloom_chunk", "bloom_row"}

\* the row number the function gives the row at a position
RowNumberAt(chunk_id, chunk_offset) ==
  row_number_of(prev_rows_of(bloom_max_chunk_size, chunk_id), chunk_offset)

\* the positions of the table: chunk_id < chunk_count, chunk_offset below
\* the size of the chunk
TablePositions ==
  {position \in ChunkIds \X ChunkOffsets :
     /\ LessLimbs(position[1], bloom_chunk_count)
     /\ LessLimbs(position[2], bloom_max_chunk_size)}

\* C23: prev_rows is the exact product max_chunk_size x chunk_id for every
\* max_chunk_size < 2^32 and every chunk_id < chunk_count < 2^32: the
\* product does not wrap modulo 2^32 before it is stored in the 64-bit
\* prev_rows, so two different positions of a table of full chunks never
\* get the same row number.
C23_PrevRowsIsExactProduct ==
  /\ InChunk => prev_rows = TimesLimbs(bloom_max_chunk_size, bloom_chunk_id, 8)
  /\ pc = "bloom_row" =>
       \A position \in TablePositions :
         position # <<bloom_chunk_id, bloom_chunk_offset>> =>
           RowNumberAt(position[1], position[2]) # row_number

PrevRowsIsExactProduct ==
  InChunk => prev_rows = TimesLimbs(bloom_max_chunk_size, bloom_chunk_id, 8)

RowNumbersDiffer ==
  pc = "bloom_row" =>
    \A position \in TablePositions :
      position # <<bloom_chunk_id, bloom_chunk_offset>> =>
        RowNumberAt(position[1], position[2]) # row_number

\* the table has fewer than 2^32 rows of room: max_chunk_size x chunk_count
\* is below 2^32
FitsIn32Bits ==
  LessLimbs(TimesLimbs(bloom_max_chunk_size, bloom_chunk_count, 8), ZeroExtend(<<0, 0, 0, 0, 1>>, 8))

\* the same for the tables whose chunks have room for fewer than 2^32 rows
PrevRowsIsExactProductIn32Bits ==
  FitsIn32Bits => C23_PrevRowsIsExactProduct

====
